---- MODULE Spec2Model ----
(***************************************************************************)
(* Model of streamlit_app.py: the form submission handler (validation,     *)
(* the data dictionary, the try block that runs the three generators) and  *)
(* the three generators generate_docx, generate_html_report and            *)
(* generate_xlsx_single_sheet, as functions from the report model to the   *)
(* structure of the document they build.                                   *)
(*                                                                         *)
(* A text is a sequence of strings: text typed by the user is one string   *)
(* per character, so that strip() and split() act on it as in Python; the  *)
(* literals of the code are written in English.                            *)
(***************************************************************************)
EXTENDS Integers, Sequences, FiniteSets, TLC

(***************************************************************************)
(* Python float arithmetic.  The percentages are computed in IEEE-754      *)
(* binary64 (round to nearest, ties to even) and printed with ':.1f',      *)
(* which rounds the exact binary value to one decimal, ties to even.  A    *)
(* value is a fixed-point number held in limbs of LimbBits bits, least     *)
(* significant first: FracLimbs limbs after the point, one before it.      *)
(* Each operation is computed exactly on the limbs and then rounded to     *)
(* MantBits significant bits, as the hardware does.                        *)
(***************************************************************************)
MantBits == 53

LimbBits == 15

LimbBase == 2 ^ LimbBits

FracLimbs == 5

NumLimbs == FracLimbs + 1

RECURSIVE NormAcc(_, _, _, _)
NormAcc(ds, i, carry, acc) ==
    IF i > Len(ds) THEN acc
    ELSE LET v == ds[i] + carry
         IN  NormAcc(ds, i + 1, v \div LimbBase, Append(acc, v % LimbBase))

\* carries a sequence of integer digits (weight LimbBase^(i-1)) into limbs
Norm(ds) == NormAcc(ds, 1, 0, <<>>)

\* the fraction limbs of r/t for 0 <= r < t, least significant first,
\* and the last remainder
RECURSIVE FracDigits(_, _, _, _)
FracDigits(r, t, k, acc) ==
    IF k = 0 THEN [limbs |-> acc, rem |-> r]
    ELSE LET r2 == r * LimbBase
         IN  FracDigits(r2 % t, t, k - 1, <<r2 \div t>> \o acc)

BitLen(v) == CHOOSE n \in 0..LimbBits : v < 2 ^ n /\ (n = 0 \/ v >= 2 ^ (n - 1))

\* index (from 1, least significant) of the highest set bit; 0 for zero
TopBit(x) ==
    IF \E j \in 1..Len(x) : x[j] # 0
    THEN LET j == CHOOSE k \in 1..Len(x) :
                     x[k] # 0 /\ \A m \in (k + 1)..Len(x) : x[m] = 0
         IN  LimbBits * (j - 1) + BitLen(x[j])
    ELSE 0

BitAt(x, n) == (x[(n - 1) \div LimbBits + 1] \div 2 ^ ((n - 1) % LimbBits)) % 2

\* some bit of index below n is set
AnyBelow(x, n) ==
    \E j \in 1..Len(x) :
        IF LimbBits * j < n THEN x[j] # 0
        ELSE IF LimbBits * (j - 1) < n - 1
             THEN x[j] % 2 ^ (n - 1 - LimbBits * (j - 1)) # 0
             ELSE FALSE

\* round an exact value (limbs plus a sticky flag for what lies below the
\* last limb) to MantBits significant bits, ties to even
RoundMant(x, sticky) ==
    LET h == TopBit(x)
        g == h - MantBits
    IN  IF g < 1 THEN x
        ELSE LET low == sticky \/ AnyBelow(x, g)
                 up  == BitAt(x, g) = 1 /\ (low \/ BitAt(x, g + 1) = 1)
                 ju  == g \div LimbBits + 1
                 u   == 2 ^ (g % LimbBits)
             IN  Norm([j \in 1..Len(x) |->
                         IF j < ju THEN 0
                         ELSE IF j = ju
                              THEN (x[j] \div u) * u + (IF up THEN u ELSE 0)
                              ELSE x[j]])

FloatOfInt(k) == [j \in 1..FracLimbs |-> 0] \o <<k>>

\* a / b for integers a >= 0, b > 0 (Python's true division)
FloatDiv(a, b) ==
    LET fd == FracDigits(a % b, b, FracLimbs, <<>>)
    IN  RoundMant(fd.limbs \o <<a \div b>>, fd.rem # 0)

\* x * k for a float x and a small integer k
FloatMul(x, k) == RoundMant(Norm([j \in 1..Len(x) |-> x[j] * k]), FALSE)

\* k - x for a small integer k >= x
FloatRSub(k, x) ==
    RoundMant(Norm([j \in 1..Len(x) |-> FloatOfInt(k)[j] - x[j]]), FALSE)

\* f"{x:.1f}": the number of tenths printed (958 stands for "95.8")
Format1f(x) ==
    LET y    == Norm([j \in 1..Len(x) |-> x[j] * 10])
        ip   == y[NumLimbs]
        half == BitAt(y, LimbBits * FracLimbs) = 1
        rest == AnyBelow(y, LimbBits * FracLimbs)
    IN  IF half /\ (rest \/ ip % 2 = 1) THEN ip + 1 ELSE ip

(***************************************************************************)
(* Python str methods and number formatting.                               *)
(***************************************************************************)
Whitespace == {" ", "\t", "\n", "\r"}

RECURSIVE lstrip(_)
lstrip(s) ==
    IF s = <<>> THEN s
    ELSE IF Head(s) \in Whitespace THEN lstrip(Tail(s)) ELSE s

RECURSIVE rstrip(_)
rstrip(s) ==
    IF s = <<>> THEN s
    ELSE IF s[Len(s)] \in Whitespace THEN rstrip(SubSeq(s, 1, Len(s) - 1)) ELSE s

\* str.strip()
strip(s) == rstrip(lstrip(s))

RECURSIVE SplitAcc(_, _, _)
SplitAcc(s, cur, acc) ==
    IF s = <<>> THEN Append(acc, cur)
    ELSE IF Head(s) = "\n" THEN SplitAcc(Tail(s), <<>>, Append(acc, cur))
         ELSE SplitAcc(Tail(s), Append(cur, Head(s)), acc)

\* str.split('\n'): the pieces between line breaks, empty ones included
split(s) == SplitAcc(s, <<>>, <<>>)

Digits == <<"0", "1", "2", "3", "4", "5", "6", "7", "8", "9">>

RECURSIVE str_int(_)
\* str(n) for an integer n >= 0
str_int(n) ==
    IF n < 10 THEN <<Digits[n + 1]>>
    ELSE Append(str_int(n \div 10), Digits[(n % 10) + 1])

\* the text of f"{x:.1f}" for a float x >= 0
fmt_1f(x) ==
    LET t == Format1f(x)
    IN  str_int(t \div 10) \o <<".", Digits[(t % 10) + 1]>>

\* mutant: the lines kept untrimmed, a blank line included when it holds a
\* space
RECURSIVE NonBlankLines_Untrimmed(_)
NonBlankLines_Untrimmed(lines) ==
    IF lines = <<>> THEN <<>>
    ELSE IF Head(lines) # <<>>
         THEN <<Head(lines)>> \o NonBlankLines_Untrimmed(Tail(lines))
         ELSE NonBlankLines_Untrimmed(Tail(lines))

\* the lines of a multi-line field that are kept: "if line.strip()"
RECURSIVE NonBlankLines(_)
NonBlankLines(lines) ==
    IF lines = <<>> THEN <<>>
    ELSE IF strip(Head(lines)) # <<>>
         THEN <<strip(Head(lines))>> \o NonBlankLines(Tail(lines))
         ELSE NonBlankLines(Tail(lines))

(***************************************************************************)
(* Tables.  A DataFrame is its column names and its rows; a cell is a text *)
(* or None (a cell the user left unfilled in the data editor).             *)
(***************************************************************************)
None == <<"<None>">>

\* pd.notna(value)
notna(value) == value # None

\* str(value) of a cell
str(value) == IF value = None THEN <<"N", "o", "n", "e">> ELSE value

\* df.empty: some axis has length 0
empty(df) == Len(df.columns) = 0 \/ Len(df.rows) = 0

(***************************************************************************)
(* What a generator returns: its document, or the exception it raised.     *)
(***************************************************************************)
Ok(doc) == [status |-> "ok", doc |-> doc]

Raised(exc) == [status |-> "raised", exc |-> exc]

(***************************************************************************)
(* The DOCX document: the sequence of block items added to it.             *)
(***************************************************************************)
Heading(text, level) == [block |-> "heading", level |-> level, text |-> text]

Paragraph(text) == [block |-> "paragraph", text |-> text]

Table(style, cells) == [block |-> "table", style |-> style, cells |-> cells]

Picture(chart) == [block |-> "picture", chart |-> chart]

NoDataDocx == <<"No data to display">>

add_table_from_df(df) ==
    IF Len(df.columns) = 0
    THEN <<Paragraph(NoDataDocx), Paragraph(<<>>)>>
    ELSE IF empty(df)
         THEN <<Table("default", <<df.columns, [i \in 1..Len(df.columns) |-> <<>>]>>),
                Paragraph(<<>>)>>
         ELSE <<Table("Table Grid",
                      <<df.columns>> \o
                      [r \in 1..Len(df.rows) |->
                         [c \in 1..Len(df.rows[r]) |->
                            IF notna(df.rows[r][c]) THEN str(df.rows[r][c]) ELSE <<>>]]),
                Paragraph(<<>>)>>

\* the two percentages of generate_docx and generate_html_report
pass_pct(data) ==
    IF data.total_tc > 0
    THEN FloatMul(FloatDiv(data.pass, data.total_tc), 100)
    ELSE FloatOfInt(0)

fail_pct(data) == FloatRSub(100, pass_pct(data))

\* f"{count} ({pct:.1f}%)"
CountPct(count, pct) == str_int(count) \o <<" ", "(">> \o fmt_1f(pct) \o <<"%", ")">>

PieChart(pass_count, fail_count) ==
    [kind |-> "pie", x |-> <<pass_count, fail_count>>, labels |-> <<"PASS", "FAIL">>]

\* the numbers written above the bars: only for a bar of height > 0
BarTexts(heights) ==
    [i \in 1..Len(heights) |-> IF heights[i] > 0 THEN str_int(heights[i]) ELSE <<>>]

\* max(a, b, c)
max(a, b, c) == IF a >= b /\ a >= c THEN a ELSE IF b >= c THEN b ELSE c

\* mutant: the upper limit without the floor of 1
ylim_NoFloor(s1_count, s2_count) ==
    FloatMul(FloatDiv(13, 10), max(s1_count, s2_count, 0))

\* the upper limit of the y-axis: max(s1, s2, 1) * 1.3
ylim(s1_count, s2_count) ==
    FloatMul(FloatDiv(13, 10), max(s1_count, s2_count, 1))

BarChart(s1_count, s2_count) ==
    [kind |-> "bar", x |-> <<s1_count, s2_count>>,
     labels |-> <<"Critical (S1)", "Major (S2)">>,
     ylim |-> <<FloatOfInt(0), ylim(s1_count, s2_count)>>,
     texts |-> BarTexts(<<s1_count, s2_count>>)]

\* mutant: a chart block that draws on the current figure and leaves it open
ChartBlock_SharedFigure == <<"draw", "savefig">>

\* mutant: a chart block that does not call plt.close
ChartBlock_NoClose == <<"figure", "draw", "savefig">>

\* the pyplot calls of one chart block: plt.figure, the plot (plt.pie or
\* plt.bar with its texts), plt.savefig, plt.close
ChartBlock == <<"figure", "draw", "savefig", "close">>

\* plt.gcf(): the figures open, with a new empty one when none is open
gcf(open) == IF open = <<>> THEN << <<>> >> ELSE open

RECURSIVE PlotRun(_, _, _, _, _)
\* the pyplot calls ops made from the figures open (each figure is the
\* sequence of what was drawn on it, the last one is the current figure):
\* plt.figure opens an empty figure, the plot draws artist on the current
\* figure, plt.savefig writes the current figure to the image, plt.close
\* closes the current figure; a draw that raises ends the run there
PlotRun(ops, open, artist, draw_raises, image) ==
    IF ops = <<>> THEN [open |-> open, raised |-> FALSE, image |-> image]
    ELSE CASE Head(ops) = "figure" ->
                PlotRun(Tail(ops), Append(open, <<>>), artist, draw_raises, image)
           [] Head(ops) = "draw" ->
                IF draw_raises
                THEN [open |-> gcf(open), raised |-> TRUE, image |-> image]
                ELSE PlotRun(Tail(ops),
                             [gcf(open) EXCEPT ![Len(gcf(open))] = Append(@, artist)],
                             artist, draw_raises, image)
           [] Head(ops) = "savefig" ->
                PlotRun(Tail(ops), gcf(open), artist, draw_raises,
                        gcf(open)[Len(gcf(open))])
           [] Head(ops) = "close" ->
                PlotRun(Tail(ops),
                        IF open = <<>> THEN <<>> ELSE SubSeq(open, 1, Len(open) - 1),
                        artist, draw_raises, image)

\* plt.pie of wedges that sum to 0: matplotlib divides by the sum; whether
\* this raises depends on the installed version (pie_zero_raises)
PieRaises(pass_count, fail_count, pie_zero_raises) ==
    pass_count + fail_count = 0 /\ pie_zero_raises

\* the pie block and then the bar block of generate_docx or of
\* generate_chart_base64, from the figures open: the two images and the
\* figures left open, or the exception of plt.pie
Charts(open, pass_count, fail_count, s1_count, s2_count, pie_zero_raises) ==
    LET pie == PlotRun(ChartBlock, open, PieChart(pass_count, fail_count),
                       PieRaises(pass_count, fail_count, pie_zero_raises), <<>>)
        bar == PlotRun(ChartBlock, pie.open, BarChart(s1_count, s2_count),
                       FALSE, <<>>)
    IN  IF pie.raised
        THEN [open |-> pie.open, raised |-> TRUE, images |-> <<>>]
        ELSE [open |-> bar.open, raised |-> FALSE,
              images |-> <<pie.image, bar.image>>]

\* the character U+2022 that the code puts before a list item
BULLET == "U+2022"

Bullets(text) ==
    LET lines == NonBlankLines(split(text))
    IN  [i \in 1..Len(lines) |-> Paragraph(<<BULLET, " ">> \o lines[i])]

RECURSIVE DocxModules(_, _)
DocxModules(module_data_list, idx) ==
    IF idx > Len(module_data_list) THEN <<>>
    ELSE <<Heading(<<"3", ".">> \o str_int(idx) \o <<".", " ">>
                     \o module_data_list[idx].title, 2)>>
         \o add_table_from_df(module_data_list[idx].df)
         \o DocxModules(module_data_list, idx + 1)

generate_docx(data, module_data_list, defects_df, lib, open) ==
    IF PieRaises(data.pass, data.fail, lib.pie_zero_raises) THEN Raised("ValueError")
    ELSE Ok(
      <<Heading(data.report_title, 0),
        Table("Table Grid",
              << <<<<"Project:">>, data.project>>,
                 <<<<"Application type:">>, data.app_type>>,
                 <<<<"Application version:">>, data.version>>,
                 <<<<"Testing period:">>, data.test_period>>,
                 <<<<"Report date:">>, data.report_date>>,
                 <<<<"QA engineer:">>, data.engineer>> >>),
        Paragraph(<<>>),
        Heading(<<"1. SUMMARY">>, 1),
        Table("Table Grid",
              << <<<<"Release status:">>, data.release_status>>,
                 <<<<"Critical defects (S1):">>, str_int(data.s1)>>,
                 <<<<"Major defects (S2):">>, str_int(data.s2)>>,
                 <<<<"Total test cases:">>, str_int(data.total_tc)>>,
                 <<<<"Pass:">>, CountPct(data.pass, pass_pct(data))>>,
                 <<<<"Fail:">>, CountPct(data.fail, fail_pct(data))>>,
                 <<<<"Main risk:">>, data.risk>>,
                 <<<<"Recommendation:">>, data.recommendation>> >>),
        Paragraph(<<>>),
        Picture(Charts(open, data.pass, data.fail, data.s1, data.s2,
                       lib.pie_zero_raises).images[1]),
        Paragraph(<<>>),
        Picture(Charts(open, data.pass, data.fail, data.s1, data.s2,
                       lib.pie_zero_raises).images[2]),
        Paragraph(<<>>),
        Heading(<<"2. TESTING CONTEXT">>, 1),
        Table("Table Grid",
              << <<<<"Device / Browser:">>, data.device_browser>>,
                 <<<<"OS / Platform:">>, data.os_platform>>,
                 <<<<"Build / Version:">>, data.build>>,
                 <<<<"Stand:">>,
                   <<"Test environment (address: ">> \o data.env_url \o <<")">> >>,
                 <<<<"Tools:">>, data.tools>>,
                 <<<<"Methodology:">>, data.methodology>> >>),
        Paragraph(<<>>),
        Heading(<<"3. RESULTS BY MODULE">>, 1)>>
      \o DocxModules(module_data_list, 1)
      \o <<Heading(<<"4. DEFECT ANALYSIS">>, 1)>>
      \o add_table_from_df(defects_df)
      \o <<Paragraph(<<"Consequences:">>), Paragraph(data.consequences),
           Heading(<<"5. TESTING LIMITATIONS">>, 1)>>
      \o Bullets(data.limitations)
      \o <<Heading(<<"6. CONCLUSION AND RECOMMENDATIONS">>, 1),
           Paragraph(<<"Conclusion:">>), Paragraph(data.conclusion),
           Paragraph(<<"Recommendations:">>)>>
      \o Bullets(data.recommendations_detailed)
      \o <<Heading(<<"7. SIGNATURE">>, 1),
           Table("Table Grid",
                 << <<<<"Role:">>, data.role>>,
                    <<<<"Full name:">>, data.fullname>>,
                    <<<<"Date:">>, data.signature_date>> >>)>>)

(***************************************************************************)
(* The HTML document: the sequence of elements written into the page.      *)
(***************************************************************************)
RECURSIVE replace(_, _, _)
\* str.replace(old, new) for a one-character old
replace(s, old, new) ==
    IF s = <<>> THEN <<>>
    ELSE (IF Head(s) = old THEN new ELSE <<Head(s)>>) \o replace(Tail(s), old, new)

\* mutant: '&' replaced after the other four characters
escape_html_AmpLast(text) ==
    IF text = None THEN str(text)
    ELSE replace(replace(replace(replace(replace(text,
             "<", <<"&", "l", "t", ";">>),
             ">", <<"&", "g", "t", ";">>),
             "\"", <<"&", "q", "u", "o", "t", ";">>),
             "'", <<"&", "#", "3", "9", ";">>),
             "&", <<"&", "a", "m", "p", ";">>)

escape_html(text) ==
    IF text = None THEN str(text)
    ELSE replace(replace(replace(replace(replace(text,
             "&", <<"&", "a", "m", "p", ";">>),
             "<", <<"&", "l", "t", ";">>),
             ">", <<"&", "g", "t", ";">>),
             "\"", <<"&", "q", "u", "o", "t", ";">>),
             "'", <<"&", "#", "3", "9", ";">>)

H(level, text) == [el |-> "h", level |-> level, text |-> text]

Td(text, class, colspan) == [text |-> text, class |-> class, colspan |-> colspan]

HtmlTable(class, header, rows) ==
    [el |-> "table", class |-> class, header |-> header, rows |-> rows]

Img(chart) == [el |-> "img", chart |-> chart]

P(label, text) == [el |-> "p", label |-> label, text |-> text]

Ul(items) == [el |-> "ul", items |-> items]

FactRow(label, value) == <<Td(<<label>>, "", 1), Td(value, "", 1)>>

NoDataHtml == <<"No data">>

\* str(x).upper() of a status cell, for the words the code compares with
upper(s) ==
    [i \in 1..Len(s) |->
       CASE s[i] = "p" -> "P" [] s[i] = "a" -> "A" [] s[i] = "s" -> "S"
         [] s[i] = "f" -> "F" [] s[i] = "i" -> "I" [] s[i] = "l" -> "L"
         [] OTHER -> s[i]]

PASS == <<"P", "A", "S", "S">>

FAIL == <<"F", "A", "I", "L">>

status_class(status) ==
    IF upper(str(status)) = PASS THEN "status-pass"
    ELSE IF upper(str(status)) = FAIL THEN "status-fail" ELSE ""

HtmlModuleTable(df) ==
    HtmlTable("", <<"ID", "Scenario", "Status", "Comment">>,
        IF ~empty(df)
        THEN [r \in 1..Len(df.rows) |->
                <<Td(escape_html(df.rows[r][1]), "", 1),
                  Td(escape_html(df.rows[r][2]), "", 1),
                  Td(escape_html(df.rows[r][3]), status_class(df.rows[r][3]), 1),
                  Td(escape_html(df.rows[r][4]), "", 1)>>]
        ELSE << <<Td(NoDataHtml, "", 4)>> >>)

RECURSIVE HtmlModules(_, _)
HtmlModules(module_data_list, idx) ==
    IF idx > Len(module_data_list) THEN <<>>
    ELSE <<H(3, <<"3", ".">> \o str_int(idx) \o <<".", " ">>
                  \o escape_html(module_data_list[idx].title)),
           HtmlModuleTable(module_data_list[idx].df)>>
         \o HtmlModules(module_data_list, idx + 1)

HtmlDefectsTable(defects_df) ==
    HtmlTable("", <<"ID", "Module", "Title", "Severity", "Status">>,
        IF ~empty(defects_df)
        THEN [r \in 1..Len(defects_df.rows) |->
                [c \in 1..5 |-> Td(escape_html(defects_df.rows[r][c]), "", 1)]]
        ELSE << <<Td(NoDataHtml, "", 5)>> >>)

\* mutant: the list items inserted as typed
HtmlList_Raw(text) ==
    LET lines == NonBlankLines(split(text))
    IN  Ul([i \in 1..Len(lines) |-> lines[i]])

HtmlList(text) ==
    LET lines == NonBlankLines(split(text))
    IN  Ul([i \in 1..Len(lines) |-> escape_html(lines[i])])

\* row[0] .. row[3] on a row of a table whose columns are named: pandas
\* reads the key as a position or raises KeyError, depending on the
\* installed version (positional_getitem); some module table has a row
ReadsRowByPosition(module_data_list) ==
    \E i \in 1..Len(module_data_list) : ~empty(module_data_list[i].df)

\* the figures open after the pie block and the bar block of generate_docx
\* or of generate_chart_base64
ChartFigures(open, pass_count, fail_count, s1_count, s2_count, pie_zero_raises) ==
    Charts(open, pass_count, fail_count, s1_count, s2_count, pie_zero_raises).open

\* generate_chart_base64: the two images, or the exception of plt.pie
generate_chart_base64(pass_count, fail_count, s1_count, s2_count, pie_zero_raises, open) ==
    IF PieRaises(pass_count, fail_count, pie_zero_raises) THEN Raised("ValueError")
    ELSE Ok(Charts(open, pass_count, fail_count, s1_count, s2_count,
                   pie_zero_raises).images)

generate_html_report(data, module_data_list, defects_df, lib, open) ==
    LET charts == generate_chart_base64(data.pass, data.fail, data.s1, data.s2,
                                        lib.pie_zero_raises, open)
    IN
    IF charts.status = "raised" THEN charts
    ELSE IF ~lib.positional_getitem
            /\ (ReadsRowByPosition(module_data_list) \/ ~empty(defects_df))
    THEN Raised("KeyError")
    ELSE Ok(
      <<[el |-> "title", text |-> escape_html(data.report_title)],
        H(1, escape_html(data.report_title)),
        HtmlTable("info-table", <<>>,
              << FactRow("Project:", escape_html(data.project)),
                 FactRow("Application type:", escape_html(data.app_type)),
                 FactRow("Application version:", escape_html(data.version)),
                 FactRow("Testing period:", escape_html(data.test_period)),
                 FactRow("Report date:", escape_html(data.report_date)),
                 FactRow("QA engineer:", escape_html(data.engineer)) >>),
        H(2, <<"1. SUMMARY">>),
        HtmlTable("summary-table", <<>>,
              << FactRow("Release status:", escape_html(data.release_status)),
                 FactRow("Critical defects (S1):", str_int(data.s1)),
                 FactRow("Major defects (S2):", str_int(data.s2)),
                 FactRow("Total test cases:", str_int(data.total_tc)),
                 <<Td(<<"Pass:">>, "", 1),
                   Td(CountPct(data.pass, pass_pct(data)), "status-pass", 1)>>,
                 <<Td(<<"Fail:">>, "", 1),
                   Td(CountPct(data.fail, fail_pct(data)), "status-fail", 1)>>,
                 <<Td(<<"Main risk:">>, "", 1), Td(escape_html(data.risk), "risk", 1)>>,
                 FactRow("Recommendation:", escape_html(data.recommendation)) >>),
        Img(charts.doc[1]),
        Img(charts.doc[2]),
        H(2, <<"2. TESTING CONTEXT">>),
        HtmlTable("context-table", <<>>,
              << FactRow("Device / Browser:", escape_html(data.device_browser)),
                 FactRow("OS / Platform:", escape_html(data.os_platform)),
                 FactRow("Build / Version:", escape_html(data.build)),
                 FactRow("Stand:", <<"Test environment (address: ">>
                                   \o escape_html(data.env_url) \o <<")">>),
                 FactRow("Tools:", escape_html(data.tools)),
                 FactRow("Methodology:", escape_html(data.methodology)) >>),
        H(2, <<"3. RESULTS BY MODULE">>)>>
      \o HtmlModules(module_data_list, 1)
      \o <<H(2, <<"4. DEFECT ANALYSIS">>),
           HtmlDefectsTable(defects_df),
           P("Consequences:", replace(escape_html(data.consequences), "\n", <<"<br>">>)),
           H(2, <<"5. TESTING LIMITATIONS">>),
           HtmlList(data.limitations),
           H(2, <<"6. CONCLUSION AND RECOMMENDATIONS">>),
           P("Conclusion:", escape_html(data.conclusion)),
           P("Recommendations:", <<>>),
           HtmlList(data.recommendations_detailed),
           H(2, <<"7. SIGNATURE">>),
           HtmlTable("signature-table", <<>>,
              << FactRow("Role:", escape_html(data.role)),
                 FactRow("Full name:", escape_html(data.fullname)),
                 FactRow("Date:", escape_html(data.signature_date)) >>),
           [el |-> "div", class |-> "no-print"]>>)

(***************************************************************************)
(* The XLSX worksheet: the rows written, each with the row number the row  *)
(* cursor had when it was written, its merged range and its cells.         *)
(***************************************************************************)
header_fill == "4472C4"
section_fill == "5B9BD5"
context_fill == "70AD47"
defects_fill == "7030A0"
notes_fill == "FFC000"
signature_fill == "333333"
pass_fill == "C6EFCE"
fail_fill == "FFC7CE"
critical_fill == "FF0000"
major_fill == "FFA500"
green_fill == "00B050"

Cell(col, value, fill) == [col |-> col, value |-> value, fill |-> fill]

XRow(row, kind, merge, cells) ==
    [row |-> row, kind |-> kind, merge |-> merge, cells |-> cells]

Band(row, title, fill) == XRow(row, "band", "A:E", <<Cell(1, <<title>>, fill)>>)

\* needle in text
Contains(text, needle) ==
    \E i \in 1..(Len(text) - Len(needle) + 1) :
        SubSeq(text, i, i + Len(needle) - 1) = needle

NOT_RECOMMENDED == <<"NOT ", "RECOMMENDED">>

RECOMMENDED == <<"RECOMMENDED">>

\* the fill of a value cell of the key metrics block
release_fill(value) ==
    IF Contains(str(value), NOT_RECOMMENDED) THEN critical_fill
    ELSE IF Contains(str(value), RECOMMENDED) THEN green_fill ELSE ""

SummaryRows(row, pairs) ==
    [i \in 1..Len(pairs) |->
       XRow(row + i - 1, "fact", "B:E",
            <<Cell(1, <<pairs[i][1]>>, ""),
              Cell(2, pairs[i][2], release_fill(pairs[i][2]))>>)]

FactRows(row, pairs) ==
    [i \in 1..Len(pairs) |->
       XRow(row + i - 1, "fact", "B:E",
            <<Cell(1, <<pairs[i][1]>>, ""), Cell(2, pairs[i][2], "")>>)]

HeaderRow(row, names) ==
    XRow(row, "header", "", [c \in 1..Len(names) |-> Cell(c, <<names[c]>>, header_fill)])

\* mutant: the status compared without upper()
status_fill_CaseSensitive(status) ==
    IF str(status) = PASS THEN pass_fill
    ELSE IF str(status) = FAIL THEN fail_fill ELSE ""

status_fill(status) ==
    IF upper(str(status)) = PASS THEN pass_fill
    ELSE IF upper(str(status)) = FAIL THEN fail_fill ELSE ""

XlsxTestRows(row, module_name, df) ==
    IF ~empty(df)
    THEN [r \in 1..Len(df.rows) |->
            XRow(row + r - 1, "test", "",
                 <<Cell(1, module_name, ""),
                   Cell(2, df.rows[r][1], ""),
                   Cell(3, df.rows[r][2], ""),
                   Cell(4, df.rows[r][3], status_fill(df.rows[r][3])),
                   Cell(5, df.rows[r][4], "")>>)]
    ELSE <<>>

RECURSIVE XlsxModules(_, _, _)
XlsxModules(row, module_data_list, idx) ==
    IF idx > Len(module_data_list) THEN <<>>
    ELSE LET rows == XlsxTestRows(row, module_data_list[idx].title,
                                  module_data_list[idx].df)
         IN  rows \o XlsxModules(row + Len(rows), module_data_list, idx + 1)

\* mutant: "Major" looked for before "Critical"
severity_fill_MajorFirst(col_idx, value) ==
    IF col_idx = 4
    THEN IF Contains(str(value), <<"Major">>) THEN major_fill
         ELSE IF Contains(str(value), <<"Critical">>) THEN critical_fill ELSE ""
    ELSE ""

severity_fill(col_idx, value) ==
    IF col_idx = 4
    THEN IF Contains(str(value), <<"Critical">>) THEN critical_fill
         ELSE IF Contains(str(value), <<"Major">>) THEN major_fill ELSE ""
    ELSE ""

NoDefectsXlsx == <<"No defects registered">>

XlsxDefects(row, defects_df) ==
    IF ~empty(defects_df)
    THEN [r \in 1..Len(defects_df.rows) |->
            XRow(row + r - 1, "defect", "",
                 [c \in 1..Len(defects_df.rows[r]) |->
                    Cell(c, defects_df.rows[r][c],
                         severity_fill(c, defects_df.rows[r][c]))])]
    ELSE <<XRow(row, "merged", "A:E", <<Cell(1, NoDefectsXlsx, "")>>)>>

\* mutant: a narrative section without the "row += 1" that follows its band
XlsxSection_BandRowReused(row, title, content) ==
    LET lines == NonBlankLines(split(content))
    IN  <<Band(row, title, notes_fill)>> \o
        [i \in 1..Len(lines) |->
           XRow(row + i - 1, "merged", "A:E",
                <<Cell(1, <<BULLET, " ">> \o lines[i], "")>>)]

\* one of the three narrative sections: its band, then one merged row per
\* non-blank line
XlsxSection(row, title, content) ==
    LET lines == NonBlankLines(split(content))
    IN  <<Band(row, title, notes_fill)>> \o
        [i \in 1..Len(lines) |->
           XRow(row + i, "merged", "A:E", <<Cell(1, <<BULLET, " ">> \o lines[i], "")>>)]

\* the percentages of generate_xlsx_single_sheet (total_tc # 0)
xlsx_pct(count, total_tc) == FloatMul(FloatDiv(count, total_tc), 100)

\* the rows one part of the sheet writes when the row cursor is at row
XlsxPart(row, part, data, module_data_list, defects_df) ==
    CASE part = "title" ->
           <<XRow(row, "band", "A:E", <<Cell(1, data.report_title, header_fill)>>)>>
      [] part = "metrics" ->
           <<Band(row, "KEY METRICS", section_fill)>> \o
           SummaryRows(row + 1,
             << <<"Project", data.project>>,
                <<"Version", data.version>>,
                <<"Testing period", data.test_period>>,
                <<"Total test cases", str_int(data.total_tc)>>,
                <<"Pass", CountPct(data.pass, xlsx_pct(data.pass, data.total_tc))>>,
                <<"Fail", CountPct(data.fail, xlsx_pct(data.fail, data.total_tc))>>,
                <<"Critical (S1)", str_int(data.s1)>>,
                <<"Major (S2)", str_int(data.s2)>>,
                <<"Release status", data.release_status>>,
                <<"Recommendation", data.recommendation>> >>)
      [] part = "context" ->
           <<Band(row, "TESTING CONTEXT", context_fill)>> \o
           FactRows(row + 1,
             << <<"Device / Browser", data.device_browser>>,
                <<"OS / Platform", data.os_platform>>,
                <<"Build / Version", data.build>>,
                <<"Stand", strip(data.env_url)>>,
                <<"Tools", data.tools>>,
                <<"Methodology", data.methodology>>,
                <<"Test engineer", data.engineer>>,
                <<"Report date", data.report_date>> >>)
      [] part = "modules" ->
           <<Band(row, "RESULTS BY MODULE", section_fill),
             HeaderRow(row + 1, <<"Module", "ID", "Scenario", "Status", "Comment">>)>> \o
           XlsxModules(row + 2, module_data_list, 1)
      [] part = "defects" ->
           <<Band(row, "DEFECT ANALYSIS", defects_fill),
             HeaderRow(row + 1, <<"ID", "Module", "Title", "Severity", "Status">>)>> \o
           XlsxDefects(row + 2, defects_df)
      [] part = "limitations" ->
           XlsxSection(row, "TESTING LIMITATIONS", data.limitations)
      [] part = "conclusion" ->
           XlsxSection(row, "CONCLUSION", data.conclusion)
      [] part = "recommendations" ->
           XlsxSection(row, "RECOMMENDATIONS", data.recommendations_detailed)
      [] part = "signature" ->
           <<Band(row, "Signature", signature_fill)>> \o
           FactRows(row + 1,
             << <<"Role", data.role>>,
                <<"Full name", data.fullname>>,
                <<"Date", data.signature_date>> >>)

\* mutant: the sheet with the defect analysis written before the module
\* results
XlsxParts_DefectsFirst ==
    <<"title", "metrics", "context", "defects", "modules",
      "limitations", "conclusion", "recommendations", "signature">>

\* the order in which generate_xlsx_single_sheet writes the parts
XlsxParts ==
    <<"title", "metrics", "context", "modules", "defects",
      "limitations", "conclusion", "recommendations", "signature">>

RECURSIVE XlsxWrite(_, _, _, _, _)
\* the row cursor: after each part it stands one row below the row that
\* follows the part's last row ("row += 1" after the part)
XlsxWrite(row, parts, data, module_data_list, defects_df) ==
    IF parts = <<>> THEN <<>>
    ELSE LET rows == XlsxPart(row, Head(parts), data, module_data_list, defects_df)
         IN  rows \o XlsxWrite(row + Len(rows) + 1, Tail(parts), data,
                               module_data_list, defects_df)

generate_xlsx_single_sheet(data, module_data_list, defects_df, lib) ==
    IF data.total_tc = 0 THEN Raised("ZeroDivisionError")
    ELSE IF ~lib.positional_getitem /\ ReadsRowByPosition(module_data_list)
    THEN Raised("KeyError")
    ELSE Ok(XlsxWrite(1, XlsxParts, data, module_data_list, defects_df))

(***************************************************************************)
(* The form and its submission.                                            *)
(***************************************************************************)
MaxDefectCount == 1
MaxModules == 2
MaxRows == 1
MaxDefectRows == 1

\* values typed into the number inputs: total_tc has min_value 1, the
\* others min_value 0
PassValues == {0, 1, 10, 29, 69}
\* mutant: the fail count without the minimum of 0
FailValues_NoMinimum == {-9, 0, 3, 5, 51}

FailValues == {0, 3, 5, 51}
TotalValues == {1, 14, 15, 72, 80}
TitleValues == {<<>>, <<" ">>, <<"T">>}

ReleaseStatusOptions ==
    {NOT_RECOMMENDED \o <<" FOR RELEASE">>, RECOMMENDED \o <<" FOR RELEASE">>}

AppTypeOptions == {<<"Mobile">>, <<"Web application">>}

TestCaseColumns == <<<<"ID">>, <<"Scenario">>, <<"Status">>, <<"Comment">>>>

DefectColumns == <<<<"ID">>, <<"Module">>, <<"Title">>, <<"Severity">>, <<"Status">>>>

TestRowValues ==
    { <<<<"1">>, <<"s">>, PASS, <<"-">>>>,
      <<<<"2">>, <<"s">>, <<"f", "a", "i", "l">>, <<"<", "b", ">">>>>,
      <<<<"3">>, None, <<"S", "K", "I", "P">>, None>> }

DefectRowValues ==
    { <<<<"B", "1">>, <<"m">>, <<"t">>, <<"Critical", " (S1)">>, <<"New">>>>,
      <<<<"B", "2">>, <<"m">>, <<"t">>, <<"Major", " (S2)">>, <<"Open">>>>,
      <<<<"B", "3">>, None, <<"t">>, <<"Minor", " (S3)">>, <<"Fixed">>>>,
      <<<<"B", "4">>, <<"Critical">>, <<"Major">>, <<"Major", "/", "Critical">>,
        <<"Open">>>> }

SeqsUpTo(S, n) == UNION {[1..k -> S] : k \in 0..n}

\* tables the data editor can return: the fixed columns, any rows
ModuleTables == {[columns |-> TestCaseColumns, rows |-> r] : r \in SeqsUpTo(TestRowValues, MaxRows)}

DefectTables == {[columns |-> DefectColumns, rows |-> r] : r \in SeqsUpTo(DefectRowValues, MaxDefectRows)}

ModuleTitles == <<<<"M", "a">>, <<"M", "b">>, <<"M", "c">>, <<"M", "d">>>>

\* the slider gives 1..10 modules; the model takes 1..MaxModules
ModuleLists(tables) ==
    UNION {{[i \in 1..k |-> [title |-> ModuleTitles[i], df |-> d[i]]] :
               d \in [1..k -> tables]} : k \in 1..MaxModules}

\* the module lists submitted: several modules with at most one row each,
\* or one module with up to MaxRows rows
ModuleForms ==
    ModuleLists({t \in ModuleTables : Len(t.rows) <= 1})
    \cup {<<[title |-> ModuleTitles[1], df |-> t]>> : t \in ModuleTables}

LimitationValues ==
    { <<"I", "t", "e", "m", " ", "A", "\n", "I", "t", "e", "m", " ", "B">>,
      <<"a", "\n", " ", "\n", " ", "b", " ">>,
      <<"1", ".", " ", "a", "\n", "-", " ", "b">>,
      <<>> }

\* the one-line recommendation of the summary
SummaryRecommendationValues ==
    {<<"c">>, <<"Release ">> \o RECOMMENDED \o <<" after a retest">>}

RecommendationValues == { <<"r", "\n", "-", " ", "s">>, <<" ">> }

DefaultModules == <<[title |-> ModuleTitles[1],
                     df |-> [columns |-> TestCaseColumns, rows |-> <<>>]]>>

DefaultDefects == [columns |-> DefectColumns, rows |-> <<>>]

DefaultForm ==
    [report_title |-> <<"T">>, project |-> <<"P">>, app_type |-> <<"Mobile">>,
     version |-> <<"1">>, test_period |-> <<"d">>, report_date |-> <<"d">>,
     engineer |-> <<"E">>,
     release_status |-> NOT_RECOMMENDED \o <<" FOR RELEASE">>,
     s1 |-> 0, s2 |-> 0, total_tc |-> 72, pass_tc |-> 69, fail_tc |-> 3,
     risk |-> <<"r">>, recommendation |-> <<"c">>,
     device_browser |-> <<"d">>, os_platform |-> <<"o">>, build |-> <<"b">>,
     env_url |-> <<" ", "u">>, tools |-> <<"t">>, methodology |-> <<"m">>,
     consequences |-> <<"-", " ", "x", "\n", "y">>,
     limitations |-> <<"I", "t", "e", "m", " ", "A", "\n", "I", "t", "e", "m", " ", "B">>,
     conclusion |-> <<"c", "\n", "d">>,
     recommendations_detailed |-> <<"r", "\n", "-", " ", "s">>,
     role |-> <<"q">>, fullname |-> <<"n">>, signature_date |-> <<"d">>]

\* the text inputs of the header: all filled, or one of them blank
HeaderFields == {"project", "version", "test_period", "report_date", "engineer"}

HeaderForms ==
    {DefaultForm} \cup
    {[DefaultForm EXCEPT ![h] = v] : h \in HeaderFields, v \in {<<>>, <<" ">>}}

\* forms that differ in the numbers, the title and the header
CountForms ==
    {[h EXCEPT !.report_title = t, !.pass_tc = p, !.fail_tc = f, !.total_tc = n,
               !.s1 = a, !.s2 = b] :
        h \in HeaderForms, t \in TitleValues, p \in PassValues, f \in FailValues,
        n \in TotalValues, a \in 0..MaxDefectCount, b \in 0..MaxDefectCount}

\* forms that differ in the narrative fields
NarrativeForms ==
    {[DefaultForm EXCEPT !.limitations = l, !.recommendations_detailed = r,
                         !.release_status = s, !.pass_tc = c[1], !.fail_tc = c[2],
                         !.total_tc = c[3], !.recommendation = t] :
        l \in LimitationValues, r \in RecommendationValues,
        s \in ReleaseStatusOptions, c \in {<<69, 3, 72>>, <<29, 51, 80>>},
        t \in SummaryRecommendationValues}

\* the validation block: every rule is an independent "if"
sum_mismatch(form) == form.pass_tc + form.fail_tc # form.total_tc

total_not_positive(form) == form.total_tc <= 0

negative_defects(form) == form.s1 < 0 \/ form.s2 < 0

empty_title(form) == strip(form.report_title) = <<>>

exceeds_total(form) == form.pass_tc > form.total_tc \/ form.fail_tc > form.total_tc

\* mutant: the validation block without its first rule
Validate_NoSumRule(form) ==
    (IF total_not_positive(form) THEN <<"total_not_positive">> ELSE <<>>) \o
    (IF negative_defects(form) THEN <<"negative_defects">> ELSE <<>>) \o
    (IF empty_title(form) THEN <<"empty_title">> ELSE <<>>) \o
    (IF exceeds_total(form) THEN <<"exceeds_total">> ELSE <<>>)

\* mutant: the validation block as an if/elif chain, which stops at the
\* first rule that is violated
Validate_ShortCircuit(form) ==
    IF sum_mismatch(form) THEN <<"sum_mismatch">>
    ELSE IF total_not_positive(form) THEN <<"total_not_positive">>
    ELSE IF negative_defects(form) THEN <<"negative_defects">>
    ELSE IF empty_title(form) THEN <<"empty_title">>
    ELSE IF exceeds_total(form) THEN <<"exceeds_total">>
    ELSE <<>>

Validate(form) ==
    (IF sum_mismatch(form) THEN <<"sum_mismatch">> ELSE <<>>) \o
    (IF total_not_positive(form) THEN <<"total_not_positive">> ELSE <<>>) \o
    (IF negative_defects(form) THEN <<"negative_defects">> ELSE <<>>) \o
    (IF empty_title(form) THEN <<"empty_title">> ELSE <<>>) \o
    (IF exceeds_total(form) THEN <<"exceeds_total">> ELSE <<>>)

\* the data dictionary built from the widgets
BuildData(form) ==
    [report_title |-> form.report_title, project |-> form.project,
     app_type |-> form.app_type, version |-> form.version,
     test_period |-> form.test_period, report_date |-> form.report_date,
     engineer |-> form.engineer, release_status |-> form.release_status,
     s1 |-> form.s1, s2 |-> form.s2, total_tc |-> form.total_tc,
     pass |-> form.pass_tc, fail |-> form.fail_tc,
     device_browser |-> form.device_browser, os_platform |-> form.os_platform,
     build |-> form.build, env_url |-> strip(form.env_url), tools |-> form.tools,
     methodology |-> form.methodology, risk |-> form.risk,
     recommendation |-> form.recommendation, consequences |-> form.consequences,
     limitations |-> form.limitations, conclusion |-> form.conclusion,
     recommendations_detailed |-> form.recommendations_detailed,
     role |-> form.role, fullname |-> form.fullname,
     signature_date |-> form.signature_date]

(***************************************************************************)
(* One run of the script after the submit button: validation, then the try *)
(* block that calls the three generators in turn, then the download        *)
(* buttons or the except handler.                                          *)
(***************************************************************************)
VARIABLES
    pc,                 \* where the script run is
    form,               \* the values of the widgets
    module_data_list,   \* the modules of the form: title and table
    defects,            \* the defect table of the form
    validation_errors,  \* the list built by the validation block
    data,               \* the dictionary handed to the generators
    docx_buffer, html_buffer, xlsx_buffer,   \* what the generators returned
    calls,              \* the generators invoked, in order
    screen,             \* what the run has displayed, in order
    lib,                \* behaviour of the installed libraries
    figures,            \* the figures open in pyplot
    arg, ret            \* a helper called on its own: argument and result

vars == <<pc, form, module_data_list, defects, validation_errors, data,
          docx_buffer, html_buffer, xlsx_buffer, calls, screen, lib,
          figures, arg, ret>>

Unset == [status |-> "unset"]

Libs == [pie_zero_raises : BOOLEAN, positional_getitem : BOOLEAN]

Init ==
    /\ pc = "form"
    /\ form = DefaultForm
    /\ module_data_list = DefaultModules
    /\ defects = DefaultDefects
    /\ validation_errors = <<>>
    /\ data = Unset
    /\ docx_buffer = Unset
    /\ html_buffer = Unset
    /\ xlsx_buffer = Unset
    /\ calls = <<>>
    /\ screen = <<>>
    /\ lib \in Libs
    /\ figures = <<>>
    /\ arg = <<>>
    /\ ret = Unset

\* "if submitted:" up to the try block: the validation block, st.stop() on
\* errors, else the data dictionary
SubmitWith(f, m, d) ==
    /\ form' = f
    /\ module_data_list' = m
    /\ defects' = d
    /\ validation_errors' = Validate(f)
    /\ IF Validate(f) # <<>>
       THEN /\ screen' = [i \in 1..Len(Validate(f)) |-> <<"error", Validate(f)[i]>>]
            /\ pc' = "stopped"
            /\ data' = Unset
       ELSE /\ screen' = <<>>
            /\ pc' = "generate_docx"
            /\ data' = BuildData(f)
    /\ UNCHANGED <<docx_buffer, html_buffer, xlsx_buffer, calls, lib, arg, ret>>
    /\ UNCHANGED figures

Submit ==
    /\ pc = "form"
    /\ \/ \E f \in CountForms : SubmitWith(f, DefaultModules, DefaultDefects)
       \/ \E f \in NarrativeForms : SubmitWith(f, DefaultModules, DefaultDefects)
       \/ \E m \in ModuleForms :
             SubmitWith(DefaultForm, m, DefaultDefects)
       \/ \E d \in DefectTables :
             SubmitWith(DefaultForm, DefaultModules, d)

GenerateDocx ==
    /\ pc = "generate_docx"
    /\ calls' = Append(calls, "generate_docx")
    /\ docx_buffer' = generate_docx(data, module_data_list, defects, lib, figures)
    /\ pc' = IF docx_buffer'.status = "raised" THEN "except" ELSE "generate_html_report"
    /\ UNCHANGED <<form, module_data_list, defects, validation_errors, data,
                   html_buffer, xlsx_buffer, screen, lib, arg, ret>>
    /\ figures' = ChartFigures(figures, data.pass, data.fail, data.s1, data.s2,
                               lib.pie_zero_raises)

\* mutant: generate_html_report in a try block of its own, the run going on
\* to the next generator when it raises
GenerateHtml_OwnTry ==
    /\ pc = "generate_html_report"
    /\ calls' = Append(calls, "generate_html_report")
    /\ html_buffer' = generate_html_report(data, module_data_list, defects, lib, figures)
    /\ pc' = "generate_xlsx_single_sheet"
    /\ UNCHANGED <<form, module_data_list, defects, validation_errors, data,
                   docx_buffer, xlsx_buffer, screen, lib, arg, ret>>
    /\ figures' = ChartFigures(figures, data.pass, data.fail, data.s1, data.s2,
                               lib.pie_zero_raises)

GenerateHtml ==
    /\ pc = "generate_html_report"
    /\ calls' = Append(calls, "generate_html_report")
    /\ html_buffer' = generate_html_report(data, module_data_list, defects, lib, figures)
    /\ pc' = IF html_buffer'.status = "raised" THEN "except"
             ELSE "generate_xlsx_single_sheet"
    /\ UNCHANGED <<form, module_data_list, defects, validation_errors, data,
                   docx_buffer, xlsx_buffer, screen, lib, arg, ret>>
    /\ figures' = ChartFigures(figures, data.pass, data.fail, data.s1, data.s2,
                               lib.pie_zero_raises)

GenerateXlsx ==
    /\ pc = "generate_xlsx_single_sheet"
    /\ calls' = Append(calls, "generate_xlsx_single_sheet")
    /\ xlsx_buffer' = generate_xlsx_single_sheet(data, module_data_list, defects, lib)
    /\ pc' = IF xlsx_buffer'.status = "raised" THEN "except" ELSE "downloads"
    /\ UNCHANGED <<form, module_data_list, defects, validation_errors, data,
                   docx_buffer, html_buffer, screen, lib, arg, ret>>
    /\ UNCHANGED figures

\* st.success and the three download buttons
ShowDownloads ==
    /\ pc = "downloads"
    /\ screen' = screen \o << <<"success">>, <<"download_button", "DOCX">>,
                              <<"download_button", "HTML">>,
                              <<"download_button", "XLSX">> >>
    /\ pc' = "done"
    /\ UNCHANGED <<form, module_data_list, defects, validation_errors, data,
                   docx_buffer, html_buffer, xlsx_buffer, calls, lib, arg, ret>>
    /\ UNCHANGED figures

\* except Exception: the error message and the traceback expander
Except ==
    /\ pc = "except"
    /\ screen' = screen \o << <<"error", "generation_failed">>, <<"expander", "traceback">> >>
    /\ pc' = "failed"
    /\ UNCHANGED <<form, module_data_list, defects, validation_errors, data,
                   docx_buffer, html_buffer, xlsx_buffer, calls, lib, arg, ret>>
    /\ UNCHANGED figures

\* the next interaction reruns the script from the top; the values the
\* widgets hold at the next submission are chosen by Submit
Rerun ==
    /\ pc \in {"stopped", "done", "failed"}
    /\ pc' = "form"
    /\ form' = DefaultForm
    /\ module_data_list' = DefaultModules
    /\ defects' = DefaultDefects
    /\ validation_errors' = <<>>
    /\ data' = Unset
    /\ docx_buffer' = Unset
    /\ html_buffer' = Unset
    /\ xlsx_buffer' = Unset
    /\ calls' = <<>>
    /\ screen' = <<>>
    /\ UNCHANGED <<lib, figures, arg, ret>>

Next ==
    \/ Submit
    \/ GenerateDocx
    \/ GenerateHtml
    \/ GenerateXlsx
    \/ ShowDownloads
    \/ Except
    \/ Rerun

Spec == Init /\ [][Next]_vars

(***************************************************************************)
(* The generators called directly, as functions of a report model: any     *)
(* counts (total_tc = 0 included), tables with or without columns, each    *)
(* generator once, in any order.                                           *)
(***************************************************************************)
RenderCounts ==
    {<<0, 0, 0>>, <<0, 1, 0>>, <<1, 0, 0>>, <<1, 0, 1>>, <<10, 5, 14>>,
     <<69, 3, 72>>, <<29, 51, 80>>}

NoColumns == [columns |-> <<>>, rows |-> <<>>]

\* defect counts (s1, s2) beyond those of the form model
BarCounts == {<<0, 0>>, <<3, 7>>, <<7, 7>>, <<10, 2>>, <<0, 23>>}

DefaultData == BuildData(DefaultForm)

\* a text with the five special characters and with an entity typed as text
Markup == <<"<", "b", ">", "&", "a", "m", "p", ";", "\"", "'">>

\* a model whose every text holds markup
MarkupModel ==
    [data |-> [DefaultData EXCEPT
                 !.report_title = Markup, !.project = Markup, !.version = Markup,
                 !.test_period = Markup, !.report_date = Markup, !.engineer = Markup,
                 !.risk = Markup, !.recommendation = Markup,
                 !.device_browser = Markup, !.os_platform = Markup, !.build = Markup,
                 !.env_url = Markup, !.tools = Markup, !.methodology = Markup,
                 !.consequences = Markup \o <<"\n">> \o Markup,
                 !.limitations = Markup \o <<"\n">> \o Markup,
                 !.conclusion = Markup,
                 !.recommendations_detailed = Markup,
                 !.role = Markup, !.fullname = Markup, !.signature_date = Markup],
     modules |-> <<[title |-> Markup,
                    df |-> [columns |-> TestCaseColumns,
                            rows |-> << <<Markup, Markup, Markup, Markup>> >>]]>>,
     defects |-> [columns |-> DefectColumns,
                  rows |-> << <<Markup, Markup, Markup, Markup, Markup>> >>]]

RenderModels ==
    {[data |-> [DefaultData EXCEPT !.pass = c[1], !.fail = c[2], !.total_tc = c[3]],
      modules |-> DefaultModules, defects |-> DefaultDefects] :
        c \in RenderCounts}
    \cup
    {[data |-> [DefaultData EXCEPT !.s1 = c[1], !.s2 = c[2]],
      modules |-> DefaultModules, defects |-> DefaultDefects] : c \in BarCounts}
    \cup
    {[data |-> DefaultData, modules |-> m, defects |-> DefaultDefects] :
        m \in ModuleLists({t \in ModuleTables : t.rows = <<>>} \cup {NoColumns})}
    \cup
    {[data |-> DefaultData,
      modules |-> <<[title |-> ModuleTitles[1], df |-> t]>>,
      defects |-> DefaultDefects] :
        t \in {x \in ModuleTables : Len(x.rows) = 1}}
    \cup
    {[data |-> DefaultData, modules |-> DefaultModules, defects |-> d] :
        d \in {x \in DefectTables : Len(x.rows) <= 1} \cup {NoColumns}}
    \cup
    {[data |-> [DefaultData EXCEPT !.limitations = l, !.recommendations_detailed = r],
      modules |-> DefaultModules, defects |-> DefaultDefects] :
        l \in LimitationValues, r \in RecommendationValues}
    \cup
    {MarkupModel}

RenderInit ==
    /\ pc = "direct"
    /\ form = DefaultForm
    /\ \E m \in RenderModels :
          /\ data = m.data
          /\ module_data_list = m.modules
          /\ defects = m.defects
    /\ validation_errors = <<>>
    /\ docx_buffer = Unset
    /\ html_buffer = Unset
    /\ xlsx_buffer = Unset
    /\ calls = <<>>
    /\ screen = <<>>
    /\ lib \in Libs
    /\ figures = <<>>
    /\ arg = <<>>
    /\ ret = Unset

CallDocx ==
    /\ pc = "direct"
    /\ docx_buffer = Unset
    /\ calls' = Append(calls, "generate_docx")
    /\ docx_buffer' = generate_docx(data, module_data_list, defects, lib, figures)
    /\ UNCHANGED <<pc, form, module_data_list, defects, validation_errors, data,
                   html_buffer, xlsx_buffer, screen, lib, arg, ret>>
    /\ figures' = ChartFigures(figures, data.pass, data.fail, data.s1, data.s2,
                               lib.pie_zero_raises)

\* mutant: generate_html_report escapes the cells of the module tables in
\* place
CallHtml_EscapesInPlace ==
    /\ pc = "direct"
    /\ html_buffer = Unset
    /\ calls' = Append(calls, "generate_html_report")
    /\ html_buffer' = generate_html_report(data, module_data_list, defects, lib, figures)
    /\ module_data_list' =
          [i \in 1..Len(module_data_list) |->
              [title |-> module_data_list[i].title,
               df |-> [columns |-> module_data_list[i].df.columns,
                       rows |-> [r \in 1..Len(module_data_list[i].df.rows) |->
                                  [c \in 1..Len(module_data_list[i].df.rows[r]) |->
                                     escape_html(module_data_list[i].df.rows[r][c])]]]]]
    /\ UNCHANGED <<pc, form, defects, validation_errors, data,
                   docx_buffer, xlsx_buffer, screen, lib, arg, ret>>
    /\ figures' = ChartFigures(figures, data.pass, data.fail, data.s1, data.s2,
                               lib.pie_zero_raises)

CallHtml ==
    /\ pc = "direct"
    /\ html_buffer = Unset
    /\ calls' = Append(calls, "generate_html_report")
    /\ html_buffer' = generate_html_report(data, module_data_list, defects, lib, figures)
    /\ UNCHANGED <<pc, form, module_data_list, defects, validation_errors, data,
                   docx_buffer, xlsx_buffer, screen, lib, arg, ret>>
    /\ figures' = ChartFigures(figures, data.pass, data.fail, data.s1, data.s2,
                               lib.pie_zero_raises)

\* mutant: generate_xlsx_single_sheet fills the missing cells of the module
\* tables in place
CallXlsx_FillnaInPlace ==
    /\ pc = "direct"
    /\ xlsx_buffer = Unset
    /\ calls' = Append(calls, "generate_xlsx_single_sheet")
    /\ xlsx_buffer' = generate_xlsx_single_sheet(data, module_data_list, defects, lib)
    /\ module_data_list' =
          [i \in 1..Len(module_data_list) |->
              [title |-> module_data_list[i].title,
               df |-> [columns |-> module_data_list[i].df.columns,
                       rows |-> [r \in 1..Len(module_data_list[i].df.rows) |->
                                  [c \in 1..Len(module_data_list[i].df.rows[r]) |->
                                     IF notna(module_data_list[i].df.rows[r][c])
                                     THEN module_data_list[i].df.rows[r][c]
                                     ELSE <<>>]]]]]
    /\ UNCHANGED <<pc, form, defects, validation_errors, data,
                   docx_buffer, html_buffer, screen, lib, arg, ret>>
    /\ UNCHANGED figures

CallXlsx ==
    /\ pc = "direct"
    /\ xlsx_buffer = Unset
    /\ calls' = Append(calls, "generate_xlsx_single_sheet")
    /\ xlsx_buffer' = generate_xlsx_single_sheet(data, module_data_list, defects, lib)
    /\ UNCHANGED <<pc, form, module_data_list, defects, validation_errors, data,
                   docx_buffer, html_buffer, screen, lib, arg, ret>>
    /\ UNCHANGED figures

Renderers == {"generate_docx", "generate_html_report", "generate_xlsx_single_sheet"}

\* what the first call of the generator name returned
FirstOutput(name) ==
    CASE name = "generate_docx" -> docx_buffer
      [] name = "generate_html_report" -> html_buffer
      [] name = "generate_xlsx_single_sheet" -> xlsx_buffer

\* the generator that was called last is called again on the same model:
\* ret is what the second call returns, arg names the generator
CallAgain ==
    /\ pc = "direct"
    /\ ret = Unset
    /\ calls # <<>>
    /\ \E name \in {calls[Len(calls)]} :
          /\ FirstOutput(name) # Unset
          /\ arg' = <<name>>
          /\ calls' = Append(calls, name)
          /\ ret' = CASE name = "generate_docx" ->
                           generate_docx(data, module_data_list, defects, lib, figures)
                      [] name = "generate_html_report" ->
                           generate_html_report(data, module_data_list, defects, lib,
                                                figures)
                      [] name = "generate_xlsx_single_sheet" ->
                           generate_xlsx_single_sheet(data, module_data_list, defects,
                                                      lib)
          /\ figures' = IF name = "generate_xlsx_single_sheet" THEN figures
                        ELSE ChartFigures(figures, data.pass, data.fail, data.s1,
                                          data.s2, lib.pie_zero_raises)
    /\ UNCHANGED <<pc, form, module_data_list, defects, validation_errors, data,
                   docx_buffer, html_buffer, xlsx_buffer, screen, lib>>

RenderNext ==
    \/ CallDocx
    \/ CallHtml
    \/ CallXlsx
    \/ CallAgain

RenderSpec == RenderInit /\ [][RenderNext]_vars

(***************************************************************************)
(* escape_html called on its own.                                          *)
(***************************************************************************)
MaxTextLen == 3

EscapeAlphabet == {"&", "<", ">", "\"", "'", ";", "a"}

EntityTexts ==
    { <<"&", "a", "m", "p", ";">>, <<"&", "l", "t", ";">>, <<"&", "g", "t", ";">>,
      <<"&", "q", "u", "o", "t", ";">>, <<"&", "#", "3", "9", ";">> }

\* the argument: a short text, a text that already holds entities, or a
\* value that is not a str
EscapeInputs ==
    SeqsUpTo(EscapeAlphabet, MaxTextLen)
    \cup EntityTexts
    \cup {x \o y : x \in EntityTexts, y \in SeqsUpTo(EscapeAlphabet, 1)}
    \cup {None}

EscapeInit ==
    /\ pc = "escape_html"
    /\ form = DefaultForm
    /\ module_data_list = DefaultModules
    /\ defects = DefaultDefects
    /\ validation_errors = <<>>
    /\ data = Unset
    /\ docx_buffer = Unset
    /\ html_buffer = Unset
    /\ xlsx_buffer = Unset
    /\ calls = <<>>
    /\ screen = <<>>
    /\ lib \in Libs
    /\ figures = <<>>
    /\ arg \in EscapeInputs
    /\ ret = Unset

CallEscape ==
    /\ pc = "escape_html"
    /\ ret = Unset
    /\ ret' = Ok(escape_html(arg))
    /\ UNCHANGED <<pc, form, module_data_list, defects, validation_errors, data,
                   docx_buffer, html_buffer, xlsx_buffer, calls, screen, lib,
                   figures, arg>>

EscapeNext == CallEscape

EscapeSpec == EscapeInit /\ [][EscapeNext]_vars

(***************************************************************************)
(* Properties.                                                             *)
(***************************************************************************)
Buttons == {i \in 1..Len(screen) : screen[i][1] = "download_button"}

RuleViolated(f) ==
    \/ sum_mismatch(f)
    \/ total_not_positive(f)
    \/ negative_defects(f)
    \/ empty_title(f)
    \/ exceeds_total(f)

\* C1: when the submitted form violates a validation rule, no generator is
\* invoked, nothing is generated and no download button is shown; a
\* generator is invoked only when the validation block found no error.
C1_ValidationGatesGeneration ==
    /\ RuleViolated(form) =>
          /\ calls = <<>>
          /\ docx_buffer = Unset /\ html_buffer = Unset /\ xlsx_buffer = Unset
          /\ Buttons = {}
    /\ calls # <<>> => validation_errors = <<>> /\ ~RuleViolated(form)

\* pass=10, fail=5, total=14 was submitted and the run stopped
C1_Witness ==
    /\ pc = "stopped"
    /\ form.pass_tc = 10 /\ form.fail_tc = 5 /\ form.total_tc = 14
    /\ "sum_mismatch" \in {validation_errors[i] : i \in 1..Len(validation_errors)}
    /\ calls = <<>>

Reported == {validation_errors[i] : i \in 1..Len(validation_errors)}

\* C2: after a submission the error list holds a message for exactly the
\* rules the form violates, each once, and a stopped run displays exactly
\* that list.
C2_AllErrorsCollected ==
    pc # "form" =>
       /\ "sum_mismatch" \in Reported <=> sum_mismatch(form)
       /\ "total_not_positive" \in Reported <=> total_not_positive(form)
       /\ "negative_defects" \in Reported <=> negative_defects(form)
       /\ "empty_title" \in Reported <=> empty_title(form)
       /\ "exceeds_total" \in Reported <=> exceeds_total(form)
       /\ Len(validation_errors) = Cardinality(Reported)
       /\ pc = "stopped" =>
             screen = [i \in 1..Len(validation_errors) |-> <<"error", validation_errors[i]>>]

\* three rules are violated by one submission and three errors are shown
C2_Witness ==
    /\ pc = "stopped"
    /\ sum_mismatch(form) /\ empty_title(form) /\ exceeds_total(form)
    /\ Len(screen) = 3

HeaderTexts(f) ==
    {f.report_title, f.project, f.app_type, f.version, f.test_period,
     f.report_date, f.engineer}

\* C3: a submission in which some header field is empty or only whitespace
\* produces a validation error and no generator runs.
C3_HeaderFieldsRequired ==
    (pc # "form" /\ \E t \in HeaderTexts(form) : strip(t) = <<>>) =>
        validation_errors # <<>> /\ calls = <<>>

(***************************************************************************)
(* Reading the generated documents.                                        *)
(***************************************************************************)
DocxOk == docx_buffer # Unset /\ docx_buffer.status = "ok"

HtmlOk == html_buffer # Unset /\ html_buffer.status = "ok"

XlsxOk == xlsx_buffer # Unset /\ xlsx_buffer.status = "ok"

\* the value cells of the Pass and Fail rows of the summary
DocxPassText == docx_buffer.doc[5].cells[5][2]

DocxFailText == docx_buffer.doc[5].cells[6][2]

HtmlPassText == html_buffer.doc[5].rows[5][2].text

HtmlFailText == html_buffer.doc[5].rows[6][2].text

XlsxFact(label) ==
    LET rows == xlsx_buffer.doc
        r == CHOOSE i \in 1..Len(rows) :
                 rows[i].kind = "fact" /\ rows[i].cells[1].value = <<label>>
    IN  rows[r].cells[2].value

XlsxPassText == XlsxFact("Pass")

XlsxFailText == XlsxFact("Fail")

\* | p + f - 100 | < 2^-(2 * LimbBits), on the exact sum of the two floats
NearHundred(p, f) ==
    LET s == Norm([j \in 1..NumLimbs |-> p[j] + f[j]])
    IN  \/ s[NumLimbs] = 100 /\ s[FracLimbs] = 0 /\ s[FracLimbs - 1] = 0
        \/ /\ s[NumLimbs] = 99
           /\ s[FracLimbs] = LimbBase - 1
           /\ s[FracLimbs - 1] = LimbBase - 1

\* C4: in the documents generate_docx and generate_html_report return, the
\* pass and fail percentages add up to 100 when total_tc > 0, and both are
\* 0 (shown as 0.0%) when total_tc = 0.
C4_PercentagesSumTo100 ==
    /\ (DocxOk \/ HtmlOk) /\ data.total_tc > 0 =>
          NearHundred(pass_pct(data), fail_pct(data))
    /\ DocxOk /\ data.total_tc = 0 =>
          /\ DocxPassText = CountPct(data.pass, FloatOfInt(0))
          /\ DocxFailText = CountPct(data.fail, FloatOfInt(0))
    /\ HtmlOk /\ data.total_tc = 0 =>
          /\ HtmlPassText = CountPct(data.pass, FloatOfInt(0))
          /\ HtmlFailText = CountPct(data.fail, FloatOfInt(0))

\* C5: a generator called with total_tc = 0 does not raise
\* ZeroDivisionError, and the document it returns shows a pass percentage
\* of 0.
C5_TotalZeroGuarded ==
    data.total_tc = 0 =>
       /\ docx_buffer # Raised("ZeroDivisionError")
       /\ html_buffer # Raised("ZeroDivisionError")
       /\ xlsx_buffer # Raised("ZeroDivisionError")
       /\ DocxOk => DocxPassText = CountPct(data.pass, FloatOfInt(0))
       /\ HtmlOk => HtmlPassText = CountPct(data.pass, FloatOfInt(0))
       /\ XlsxOk => XlsxPassText = CountPct(data.pass, FloatOfInt(0))

\* C6: when the three documents of one submission exist, their Pass texts
\* are equal and their Fail texts are equal (same count, same one-decimal
\* percentage).
C6_SamePercentagesInAllFormats ==
    DocxOk /\ HtmlOk /\ XlsxOk =>
       /\ DocxPassText = HtmlPassText /\ HtmlPassText = XlsxPassText
       /\ DocxFailText = HtmlFailText /\ HtmlFailText = XlsxFailText

\* the section a heading or a band opens
SectionKind(text) ==
    CASE text \in {<<"1. SUMMARY">>, <<"KEY METRICS">>} -> "summary"
      [] text \in {<<"2. TESTING CONTEXT">>, <<"TESTING CONTEXT">>} -> "context"
      [] text \in {<<"3. RESULTS BY MODULE">>, <<"RESULTS BY MODULE">>} -> "modules"
      [] text \in {<<"4. DEFECT ANALYSIS">>, <<"DEFECT ANALYSIS">>} -> "defects"
      [] text \in {<<"5. TESTING LIMITATIONS">>, <<"TESTING LIMITATIONS">>} -> "limitations"
      [] text \in {<<"6. CONCLUSION AND RECOMMENDATIONS">>, <<"CONCLUSION">>,
                   <<"RECOMMENDATIONS">>} -> "conclusion"
      [] text \in {<<"7. SIGNATURE">>, <<"Signature">>} -> "signature"
      [] OTHER -> "title"

Section(kind) == [kind |-> kind, text |-> <<>>]

ModuleSection(text) == [kind |-> "module", text |-> text]

IsHeading(b) == b.block = "heading"

IsH(e) == e.el = "h"

IsBand(r) == r.kind = "band"

IsTestRow(r) == r.kind = "test"

\* the headings of the DOCX document, in document order
DocxOutline ==
    LET hs == SelectSeq(docx_buffer.doc, IsHeading)
    IN  [i \in 1..Len(hs) |->
           IF hs[i].level = 2 THEN ModuleSection(hs[i].text)
           ELSE Section(SectionKind(hs[i].text))]

\* the h1, h2 and h3 elements of the HTML page, in page order
HtmlOutline ==
    LET hs == SelectSeq(html_buffer.doc, IsH)
    IN  [i \in 1..Len(hs) |->
           IF hs[i].level = 3 THEN ModuleSection(hs[i].text)
           ELSE Section(SectionKind(hs[i].text))]

RECURSIVE Dedupe(_)
\* equal neighbours merged into one
Dedupe(s) ==
    IF Len(s) < 2 THEN s
    ELSE IF s[1] = s[2] THEN Dedupe(Tail(s))
         ELSE <<s[1]>> \o Dedupe(Tail(s))

\* the sections the bands of the sheet open, in row order
XlsxOutline ==
    LET bs == SelectSeq(xlsx_buffer.doc, IsBand)
    IN  Dedupe([i \in 1..Len(bs) |-> Section(SectionKind(bs[i].cells[1].value))])

\* the module names in column A of the test-case rows, in row order
XlsxModuleNames ==
    LET ts == SelectSeq(xlsx_buffer.doc, IsTestRow)
    IN  [i \in 1..Len(ts) |-> ts[i].cells[1].value]

RECURSIVE ModuleNamesByRow(_, _)
ModuleNamesByRow(list, idx) ==
    IF idx > Len(list) THEN <<>>
    ELSE [r \in 1..Len(list[idx].df.rows) |-> list[idx].title]
         \o ModuleNamesByRow(list, idx + 1)

RowsAscend(rows) == \A i \in 1..(Len(rows) - 1) : rows[i].row < rows[i + 1].row

\* the index of the band that opens a section of the sheet
BandRow(kind) ==
    LET rows == xlsx_buffer.doc
    IN  rows[CHOOSE i \in 1..Len(rows) :
                 IsBand(rows[i]) /\ SectionKind(rows[i].cells[1].value) = kind].row

\* the order of sections the report has, with the sub-sections of the
\* modules numbered from 1 in list order
ReportOutline(numbered_titles) ==
    <<Section("title"), Section("summary"), Section("context"), Section("modules")>>
    \o [k \in 1..Len(numbered_titles) |-> ModuleSection(numbered_titles[k])]
    \o <<Section("defects"), Section("limitations"), Section("conclusion"),
         Section("signature")>>

Numbered(k, title) == <<"3", ".">> \o str_int(k) \o <<".", " ">> \o title

\* C7: the three documents have their sections in the same order: title,
\* summary, context, module results, defect analysis, limitations,
\* conclusion and recommendations, signature; the modules come in list
\* order, numbered 3.1 .. 3.n in DOCX and HTML, and in the sheet their rows
\* lie between the module band and the defect band in list order.
C7_SameSectionOrder ==
    /\ DocxOk => DocxOutline =
          ReportOutline([k \in 1..Len(module_data_list) |->
                            Numbered(k, module_data_list[k].title)])
    /\ HtmlOk => HtmlOutline =
          ReportOutline([k \in 1..Len(module_data_list) |->
                            Numbered(k, escape_html(module_data_list[k].title))])
    /\ XlsxOk =>
          /\ XlsxOutline = ReportOutline(<<>>)
          /\ RowsAscend(xlsx_buffer.doc)
          /\ XlsxModuleNames = ModuleNamesByRow(module_data_list, 1)
          /\ \A i \in 1..Len(xlsx_buffer.doc) :
                IsTestRow(xlsx_buffer.doc[i]) =>
                   /\ xlsx_buffer.doc[i].row > BandRow("modules")
                   /\ xlsx_buffer.doc[i].row < BandRow("defects")

\* the three documents of a report with two modules that both have rows
C7_Witness ==
    /\ DocxOk /\ HtmlOk /\ XlsxOk
    /\ Len(module_data_list) = 2
    /\ Len(XlsxModuleNames) = 2
    /\ XlsxModuleNames[1] # XlsxModuleNames[2]
    /\ Len(DocxOutline) = 10

\* the block add_table_from_df added for the k-th module: the modules start
\* after the heading of section 3, each a heading and two blocks
DocxModuleBlock(k) == docx_buffer.doc[14 + 3 * (k - 1) + 2]

\* C8: in the DOCX document, a module whose table has zero rows or zero
\* columns is rendered by add_table_from_df as the "no data" placeholder
\* paragraph and not as a table.
C8_EmptyTablePlaceholder ==
    DocxOk =>
       \A k \in 1..Len(module_data_list) :
          empty(module_data_list[k].df) =>
             /\ DocxModuleBlock(k).block # "table"
             /\ DocxModuleBlock(k) = Paragraph(NoDataDocx)

\* the table of the k-th module in the HTML page
HtmlModuleRows(k) == html_buffer.doc[10 + 2 * k].rows

\* the rows of the sheet between the header row of the module results and
\* the band of the defect analysis
XlsxModuleArea ==
    {i \in 1..Len(xlsx_buffer.doc) :
        /\ xlsx_buffer.doc[i].row > BandRow("modules") + 1
        /\ xlsx_buffer.doc[i].row < BandRow("defects")}

RECURSIVE RowsOrPlaceholder(_, _)
\* one row per test case, one placeholder row for a module without any
RowsOrPlaceholder(list, idx) ==
    IF idx > Len(list) THEN 0
    ELSE (IF empty(list[idx].df) THEN 1 ELSE Len(list[idx].df.rows))
         + RowsOrPlaceholder(list, idx + 1)

\* C9: in the HTML page and in the sheet, a module whose table has zero
\* rows has a "no data" placeholder row of its own: in HTML its table has
\* that one row, in the sheet the module area holds a row for it.
C9_EmptyModulePlaceholder ==
    /\ HtmlOk =>
          \A k \in 1..Len(module_data_list) :
             empty(module_data_list[k].df) =>
                /\ Len(HtmlModuleRows(k)) = 1
                /\ HtmlModuleRows(k)[1][1].text = NoDataHtml
    /\ XlsxOk =>
          Cardinality(XlsxModuleArea) = RowsOrPlaceholder(module_data_list, 1)

StartsWithDigit(line) ==
    line # <<>> /\ \E d \in 1..Len(Digits) : Head(line) = Digits[d]

\* the paragraphs between the headings of sections 5 and 6
DocxLimitations ==
    LET doc == docx_buffer.doc
        h5 == CHOOSE i \in 1..Len(doc) :
                 IsHeading(doc[i]) /\ SectionKind(doc[i].text) = "limitations"
        h6 == CHOOSE i \in 1..Len(doc) :
                 IsHeading(doc[i]) /\ SectionKind(doc[i].text) = "conclusion"
    IN  SubSeq(doc, h5 + 1, h6 - 1)

\* the list element that follows the heading of section 5
HtmlLimitations ==
    LET doc == html_buffer.doc
        h5 == CHOOSE i \in 1..Len(doc) :
                 IsH(doc[i]) /\ SectionKind(doc[i].text) = "limitations"
    IN  doc[h5 + 1]

NumberedItem(k, line) == str_int(k) \o <<".", " ">> \o line

\* C10: when no non-blank line of the limitations starts with a numeral,
\* the DOCX document has one paragraph "k. <line k>" per line and the HTML
\* page has a list of as many items, numbered by the list element (ol) or
\* in the item text.
C10_LimitationsNumbered ==
    LET lines == NonBlankLines(split(data.limitations))
    IN  (data # Unset /\ \A k \in 1..Len(lines) : ~StartsWithDigit(lines[k])) =>
           /\ DocxOk =>
                 DocxLimitations =
                    [k \in 1..Len(lines) |-> Paragraph(NumberedItem(k, lines[k]))]
           /\ HtmlOk =>
                 \/ /\ HtmlLimitations.el = "ol"
                    /\ HtmlLimitations.items =
                          [k \in 1..Len(lines) |-> escape_html(lines[k])]
                 \/ HtmlLimitations.items =
                       [k \in 1..Len(lines) |->
                           NumberedItem(k, escape_html(lines[k]))]

(***************************************************************************)
(* List markers in the narrative fields.                                   *)
(***************************************************************************)
IsDigit(c) == \E d \in 1..Len(Digits) : c = Digits[d]

\* digits followed by '.'
StartsWithNumeral(line) ==
    \E j \in 2..Len(line) :
        /\ line[j] = "."
        /\ \A i \in 1..(j - 1) : IsDigit(line[i])

\* the line starts with a list marker: -, *, a bullet, or digits and '.'
HasLeadingMarker(line) ==
    /\ line # <<>>
    /\ \/ Head(line) \in {"-", "*", BULLET}
       \/ StartsWithNumeral(line)

\* the text of an item after the marker the generator put before it
AfterOwnMarker(text) ==
    IF Len(text) >= 2 /\ text[1] = BULLET /\ text[2] = " "
    THEN SubSeq(text, 3, Len(text))
    ELSE text

\* the paragraphs after "Recommendations:" up to the heading of section 7
DocxRecommendations ==
    LET doc == docx_buffer.doc
        p == CHOOSE i \in 1..Len(doc) : doc[i] = Paragraph(<<"Recommendations:">>)
        h7 == CHOOSE i \in 1..Len(doc) :
                 IsHeading(doc[i]) /\ SectionKind(doc[i].text) = "signature"
    IN  SubSeq(doc, p + 1, h7 - 1)

\* the merged rows of the sheet under the bands of the narrative sections
XlsxNarrativeItems ==
    LET rows == xlsx_buffer.doc
        first == BandRow("limitations")
        last == BandRow("signature")
    IN  SelectSeq(rows, LAMBDA r : r.kind = "merged" /\ r.row > first /\ r.row < last)

\* the list elements of the HTML page
HtmlLists == SelectSeq(html_buffer.doc, LAMBDA e : e.el = "ul")

\* C11: no item made from a line of a narrative field carries two list
\* markers: what follows the generator's own marker does not start with a
\* marker the user typed, and in DOCX a limitations line that starts with a
\* digit is emitted as the line itself, without a marker.
C11_NoDoubledMarker ==
    /\ DocxOk =>
          /\ \A k \in 1..Len(DocxLimitations) :
                LET line == NonBlankLines(split(data.limitations))[k]
                IN  IF IsDigit(Head(line))
                    THEN DocxLimitations[k].text = line
                    ELSE ~HasLeadingMarker(AfterOwnMarker(DocxLimitations[k].text))
          /\ \A k \in 1..Len(DocxRecommendations) :
                ~HasLeadingMarker(AfterOwnMarker(DocxRecommendations[k].text))
    /\ HtmlOk =>
          \A l \in 1..Len(HtmlLists) : \A k \in 1..Len(HtmlLists[l].items) :
             ~HasLeadingMarker(HtmlLists[l].items[k])
    /\ XlsxOk =>
          \A k \in 1..Len(XlsxNarrativeItems) :
             ~HasLeadingMarker(AfterOwnMarker(XlsxNarrativeItems[k].cells[1].value))

(***************************************************************************)
(* HTML escaping.                                                          *)
(***************************************************************************)
\* the five entities and the character each stands for
Entities ==
    << [char |-> "&", text |-> <<"&", "a", "m", "p", ";">>],
       [char |-> "<", text |-> <<"&", "l", "t", ";">>],
       [char |-> ">", text |-> <<"&", "g", "t", ";">>],
       [char |-> "\"", text |-> <<"&", "q", "u", "o", "t", ";">>],
       [char |-> "'", text |-> <<"&", "#", "3", "9", ";">>] >>

\* the entities that s starts with (at most one)
EntityAt(s) ==
    {e \in 1..Len(Entities) :
        /\ Len(s) >= Len(Entities[e].text)
        /\ SubSeq(s, 1, Len(Entities[e].text)) = Entities[e].text}

RECURSIVE Unescape(_)
\* every entity of s replaced by its character, reading s once
Unescape(s) ==
    IF s = <<>> THEN <<>>
    ELSE IF EntityAt(s) # {}
         THEN LET e == Entities[CHOOSE x \in EntityAt(s) : TRUE]
              IN  <<e.char>> \o Unescape(SubSeq(s, Len(e.text) + 1, Len(s)))
         ELSE <<Head(s)>> \o Unescape(Tail(s))

NoRawSpecial(s) == \A i \in 1..Len(s) : s[i] \notin {"<", ">", "\"", "'"}

EveryAmpStartsEntity(s) ==
    \A i \in 1..Len(s) : s[i] = "&" => EntityAt(SubSeq(s, i, Len(s))) # {}

\* C12: escape_html of a string has no raw <, >, " or ', every & in it
\* starts one of the five entities, and replacing the entities back gives
\* the string that was passed in.
C12_EscapeHtml ==
    (ret # Unset /\ arg # None) =>
       /\ NoRawSpecial(ret.doc)
       /\ EveryAmpStartsEntity(ret.doc)
       /\ Unescape(ret.doc) = arg

\* a text that already holds an entity was escaped: its & became &amp; and
\* the entity was not produced twice
C12_Witness ==
    /\ ret # Unset
    /\ arg = <<"&", "l", "t", ";", "<">>
    /\ ret.doc = <<"&", "a", "m", "p", ";", "l", "t", ";", "&", "l", "t", ";">>

(***************************************************************************)
(* Cells without a value.                                                  *)
(***************************************************************************)
\* what a missing value may be rendered as: nothing, or an em-dash
Blank == {<<>>, <<"U+2014">>}

\* the text a worksheet cell shows: a cell whose value is None is empty
XlsxShown(value) == IF value = None THEN <<>> ELSE value

\* the block add_table_from_df added for the defect table
DocxDefectsBlock ==
    LET doc == docx_buffer.doc
        h4 == CHOOSE i \in 1..Len(doc) :
                 IsHeading(doc[i]) /\ SectionKind(doc[i].text) = "defects"
    IN  doc[h4 + 1]

\* the defect table of the HTML page
HtmlDefectRows ==
    LET doc == html_buffer.doc
        h4 == CHOOSE i \in 1..Len(doc) :
                 IsH(doc[i]) /\ SectionKind(doc[i].text) = "defects"
    IN  doc[h4 + 1].rows

IsDefectRow(r) == r.kind = "defect"

XlsxDefectRows == SelectSeq(xlsx_buffer.doc, IsDefectRow)

XlsxTestRowSeq == SelectSeq(xlsx_buffer.doc, IsTestRow)

\* the rows of all module tables, in list order
RECURSIVE AllTestRows(_, _)
AllTestRows(list, idx) ==
    IF idx > Len(list) THEN <<>>
    ELSE list[idx].df.rows \o AllTestRows(list, idx + 1)

\* C13: a cell of a module table or of the defect table that has no value
\* (None) is rendered as an empty text or an em-dash in the DOCX table, the
\* HTML table and the worksheet, never as the text "None".
C13_MissingCellBlank ==
    /\ DocxOk =>
          /\ \A k \in 1..Len(module_data_list) :
                \A r \in 1..Len(module_data_list[k].df.rows) : \A c \in 1..4 :
                   module_data_list[k].df.rows[r][c] = None =>
                      DocxModuleBlock(k).cells[r + 1][c] \in Blank
          /\ \A r \in 1..Len(defects.rows) : \A c \in 1..5 :
                defects.rows[r][c] = None => DocxDefectsBlock.cells[r + 1][c] \in Blank
    /\ HtmlOk =>
          /\ \A k \in 1..Len(module_data_list) :
                \A r \in 1..Len(module_data_list[k].df.rows) : \A c \in 1..4 :
                   module_data_list[k].df.rows[r][c] = None =>
                      HtmlModuleRows(k)[r][c].text \in Blank
          /\ \A r \in 1..Len(defects.rows) : \A c \in 1..5 :
                defects.rows[r][c] = None => HtmlDefectRows[r][c].text \in Blank
    /\ XlsxOk =>
          /\ \A r \in 1..Len(XlsxTestRowSeq) : \A c \in 1..4 :
                AllTestRows(module_data_list, 1)[r][c] = None =>
                   XlsxShown(XlsxTestRowSeq[r].cells[c + 1].value) \in Blank
          /\ \A r \in 1..Len(XlsxDefectRows) : \A c \in 1..5 :
                defects.rows[r][c] = None =>
                   XlsxShown(XlsxDefectRows[r].cells[c].value) \in Blank

(***************************************************************************)
(* Status and severity styles.                                             *)
(***************************************************************************)
LowerOf(c) ==
    CASE c = "P" -> "p" [] c = "A" -> "a" [] c = "S" -> "s"
      [] c = "F" -> "f" [] c = "I" -> "i" [] c = "L" -> "l"
      [] OTHER -> c

\* s is word, in any mix of upper and lower case
EqualsIgnoringCase(s, word) ==
    /\ Len(s) = Len(word)
    /\ \A i \in 1..Len(s) : s[i] \in {word[i], LowerOf(word[i])}

StatusKind(status) ==
    IF status = None THEN "none"
    ELSE IF EqualsIgnoringCase(status, PASS) THEN "pass"
    ELSE IF EqualsIgnoringCase(status, FAIL) THEN "fail" ELSE "none"

HtmlStatusStyle(kind) ==
    CASE kind = "pass" -> "status-pass" [] kind = "fail" -> "status-fail"
      [] OTHER -> ""

XlsxStatusStyle(kind) ==
    CASE kind = "pass" -> pass_fill [] kind = "fail" -> fail_fill [] OTHER -> ""

\* C14: the status cell of a test-case row has the pass style (class
\* status-pass in HTML, light-green fill in the sheet) iff the status is
\* PASS in any case, the fail style iff it is FAIL in any case, and no
\* style otherwise; the other cells of the row have none.
C14_StatusStyleSame ==
    /\ HtmlOk =>
          \A k \in 1..Len(module_data_list) :
             \A r \in 1..Len(module_data_list[k].df.rows) : \A c \in 1..4 :
                HtmlModuleRows(k)[r][c].class =
                   IF c = 3
                   THEN HtmlStatusStyle(StatusKind(module_data_list[k].df.rows[r][3]))
                   ELSE ""
    /\ XlsxOk =>
          \A r \in 1..Len(XlsxTestRowSeq) : \A c \in 1..5 :
             XlsxTestRowSeq[r].cells[c].fill =
                IF c = 4
                THEN XlsxStatusStyle(StatusKind(AllTestRows(module_data_list, 1)[r][3]))
                ELSE ""

\* a row whose status is "fail" in lower case has the fail style in the
\* page and in the sheet
C14_Witness ==
    /\ HtmlOk /\ XlsxOk
    /\ \E r \in 1..Len(XlsxTestRowSeq) :
          /\ AllTestRows(module_data_list, 1)[r][3] = <<"f", "a", "i", "l">>
          /\ XlsxTestRowSeq[r].cells[4].fill = fail_fill
    /\ \E k \in 1..Len(module_data_list) :
          \E r \in 1..Len(module_data_list[k].df.rows) :
             /\ module_data_list[k].df.rows[r][3] = <<"f", "a", "i", "l">>
             /\ HtmlModuleRows(k)[r][3].class = "status-fail"

\* C15: in a defect row of the sheet the severity cell (column 4) is filled
\* red iff its text contains "Critical", orange iff it contains "Major" and
\* not "Critical", and not filled otherwise; no other cell of the row is
\* filled.
C15_SeverityFill ==
    XlsxOk =>
       /\ Len(XlsxDefectRows) = Len(defects.rows)
       /\ \A r \in 1..Len(XlsxDefectRows) : \A c \in 1..5 :
             LET sev == str(defects.rows[r][4])
                 fill == XlsxDefectRows[r].cells[c].fill
             IN  /\ c # 4 => fill = ""
                 /\ c = 4 =>
                      /\ fill = critical_fill <=> Contains(sev, <<"Critical">>)
                      /\ fill = major_fill <=>
                            Contains(sev, <<"Major">>) /\ ~Contains(sev, <<"Critical">>)
                      /\ fill \in {critical_fill, major_fill, ""}

\* a defect whose severity names both words is filled red, and its module
\* and title cells, which hold the words too, are not filled
C15_Witness ==
    /\ XlsxOk
    /\ \E r \in 1..Len(XlsxDefectRows) :
          /\ defects.rows[r][4] = <<"Major", "/", "Critical">>
          /\ defects.rows[r][2] = <<"Critical">>
          /\ XlsxDefectRows[r].cells[4].fill = critical_fill
          /\ XlsxDefectRows[r].cells[2].fill = ""

\* the classes of the cells of a defect row of the HTML page
HtmlDefectRowStyles(r) == {HtmlDefectRows[r][c].class : c \in 1..Len(HtmlDefectRows[r])}

\* C16: in the HTML page a defect row whose severity is Critical has a
\* class or style of its own, and so has a row whose severity is Major;
\* the two differ.
C16_HtmlSeverityStyle ==
    (HtmlOk /\ Len(defects.rows) > 0) =>
       /\ \A r \in 1..Len(defects.rows) :
             (\/ Contains(str(defects.rows[r][4]), <<"Critical">>)
              \/ Contains(str(defects.rows[r][4]), <<"Major">>)) =>
                HtmlDefectRowStyles(r) # {""}
       /\ \A r, q \in 1..Len(defects.rows) :
             (/\ Contains(str(defects.rows[r][4]), <<"Critical">>)
              /\ ~Contains(str(defects.rows[q][4]), <<"Critical">>)) =>
                HtmlDefectRowStyles(r) # HtmlDefectRowStyles(q)

(***************************************************************************)
(* The try block.                                                          *)
(***************************************************************************)
Offered(format) ==
    \E i \in 1..Len(screen) : screen[i] = <<"download_button", format>>

\* C17: when the run has ended, every format whose generator does not
\* raise on the submitted report has been generated and is offered for
\* download, whatever another generator did.
C17_FailureIsolation ==
    pc \in {"done", "failed"} =>
       /\ generate_docx(data, module_data_list, defects, lib, figures).status = "ok" =>
             DocxOk /\ Offered("DOCX")
       /\ generate_html_report(data, module_data_list, defects, lib, figures).status = "ok" =>
             HtmlOk /\ Offered("HTML")
       /\ generate_xlsx_single_sheet(data, module_data_list, defects, lib).status = "ok" =>
             XlsxOk /\ Offered("XLSX")

(***************************************************************************)
(* The charts.                                                             *)
(***************************************************************************)
NoneRaised ==
    \A b \in {docx_buffer, html_buffer, xlsx_buffer} : b.status # "raised"

\* C18: as long as every render so far has succeeded, pyplot has as many
\* open figures as before the first render (none): each chart block closed
\* the figure it opened.
C18_FiguresClosed == NoneRaised => figures = <<>>

\* the three generators have run, four chart blocks in all, and no figure
\* is open
C18_Witness ==
    /\ DocxOk /\ HtmlOk /\ XlsxOk
    /\ Len(calls) = 3
    /\ figures = <<>>

\* the bar charts of the DOCX document and of the HTML page
DocxBarChart == docx_buffer.doc[9].chart[Len(docx_buffer.doc[9].chart)]

HtmlBarChart == html_buffer.doc[7].chart[Len(html_buffer.doc[7].chart)]

\* x < y for two floats
FloatLess(x, y) ==
    \E j \in 1..NumLimbs :
        /\ x[j] < y[j]
        /\ \A m \in (j + 1)..NumLimbs : x[m] = y[m]

\* | s - n | < 2^-(2 * LimbBits) for an exact value s and an integer n
NearInt(s, n) ==
    \/ s[NumLimbs] = n /\ s[FracLimbs] = 0 /\ s[FracLimbs - 1] = 0
    \/ /\ s[NumLimbs] = n - 1
       /\ s[FracLimbs] = LimbBase - 1
       /\ s[FracLimbs - 1] = LimbBase - 1

\* the y-axis of a bar chart is [0, 1.3 * max(s1, s2, 1)], its upper limit
\* positive and above both bars
YAxisAsClaimed(chart) ==
    LET top == chart.ylim[2]
        tall == IF chart.x[1] >= chart.x[2] THEN chart.x[1] ELSE chart.x[2]
        floor1 == IF tall >= 1 THEN tall ELSE 1
    IN  /\ chart.ylim[1] = FloatOfInt(0)
        /\ NearInt(Norm([j \in 1..NumLimbs |-> top[j] * 10]), 13 * floor1)
        /\ FloatLess(FloatOfInt(0), top)
        /\ FloatLess(FloatOfInt(tall), top)

\* C19: the y-axis of the severity bar chart runs from 0 to
\* 1.3 * max(s1, s2, 1): the upper limit is positive also when s1 = s2 = 0
\* and lies above the taller bar.
C19_BarChartYAxis ==
    /\ DocxOk => DocxBarChart.kind = "bar" /\ YAxisAsClaimed(DocxBarChart)
    /\ HtmlOk => HtmlBarChart.kind = "bar" /\ YAxisAsClaimed(HtmlBarChart)

\* charts were drawn for s1 = s2 = 0 and their y-axis ends at 1.3
C19_Witness ==
    /\ DocxOk /\ HtmlOk
    /\ data.s1 = 0 /\ data.s2 = 0
    /\ DocxBarChart.ylim[2] = FloatDiv(13, 10)
    /\ HtmlBarChart.ylim[2] = FloatDiv(13, 10)

\* C20: each bar of the severity bar chart carries its height as a text,
\* also a bar of height 0.
C20_BarsAnnotated ==
    /\ DocxOk => \A i \in 1..2 : DocxBarChart.texts[i] = str_int(DocxBarChart.x[i])
    /\ HtmlOk => \A i \in 1..2 : HtmlBarChart.texts[i] = str_int(HtmlBarChart.x[i])

\* C21: a generator called a second time on the same model returns what its
\* first call returned (the same chart images, the same document or the same
\* exception), whatever the first call and the calls between left behind
C21_RenderDeterministic ==
    (pc = "direct" /\ ret # Unset) => ret = FirstOutput(arg[1])

\* generate_html_report was called twice on a model with a table row and
\* returned a page both times, the pie image holding the pie chart alone
C21_Witness ==
    /\ pc = "direct"
    /\ ret # Unset
    /\ arg = <<"generate_html_report">>
    /\ ret.status = "ok"
    /\ html_buffer.status = "ok"
    /\ ReadsRowByPosition(module_data_list)
    /\ ret.doc[6].chart = <<PieChart(data.pass, data.fail)>>

\* C22: a call of generate_docx, generate_html_report or
\* generate_xlsx_single_sheet leaves the data dictionary, the module list
\* (titles and tables) and the defect table as they were before the call
C22_ModelNotMutated ==
    [][calls' # calls =>
          /\ data' = data
          /\ module_data_list' = module_data_list
          /\ defects' = defects]_vars

\* the three generators have been called on a model whose module table has a
\* row with a missing cell
C22_Witness ==
    /\ pc = "direct"
    /\ docx_buffer # Unset /\ html_buffer # Unset /\ xlsx_buffer # Unset
    /\ \E i \in 1..Len(module_data_list) :
          \E r \in 1..Len(module_data_list[i].df.rows) :
             \E c \in 1..Len(module_data_list[i].df.rows[r]) :
                ~notna(module_data_list[i].df.rows[r][c])

\* C23: in whatever order the three generators are called on one model,
\* each returns what it returns when it is the only one called (no figure
\* open before it)
C23_OrderInsignificant ==
    pc = "direct" =>
       /\ docx_buffer # Unset =>
             docx_buffer = generate_docx(data, module_data_list, defects, lib, <<>>)
       /\ html_buffer # Unset =>
             html_buffer = generate_html_report(data, module_data_list, defects, lib,
                                                <<>>)
       /\ xlsx_buffer # Unset =>
             xlsx_buffer = generate_xlsx_single_sheet(data, module_data_list, defects,
                                                      lib)

\* the generators were called in the order XLSX, HTML, DOCX on a model with
\* a table row, and each returned a document
C23_Witness ==
    /\ pc = "direct"
    /\ Len(calls) >= 3
    /\ calls[1] = "generate_xlsx_single_sheet"
    /\ calls[2] = "generate_html_report"
    /\ calls[3] = "generate_docx"
    /\ DocxOk /\ HtmlOk /\ XlsxOk
    /\ ReadsRowByPosition(module_data_list)

\* the cells of a worksheet row that its merged range covers
MergedRange(r) ==
    CASE r.merge = "A:E" -> {<<r.row, c>> : c \in 1..5}
      [] r.merge = "B:E" -> {<<r.row, c>> : c \in 2..5}
      [] OTHER -> {}

\* the band that opens the section of the i-th row written
SectionBand(rows, i) ==
    CHOOSE j \in 1..i : IsBand(rows[j]) /\ \A k \in (j + 1)..i : ~IsBand(rows[k])

\* C24: in the sheet of generate_xlsx_single_sheet the rows are written at
\* strictly increasing row numbers, so no row is written twice; the merged
\* ranges are pairwise disjoint; and every row lies below the band of its
\* section
C24_RowCursorAdvances ==
    XlsxOk =>
       /\ RowsAscend(xlsx_buffer.doc)
       /\ \A i, j \in 1..Len(xlsx_buffer.doc) :
             i # j =>
                /\ xlsx_buffer.doc[i].row # xlsx_buffer.doc[j].row
                /\ MergedRange(xlsx_buffer.doc[i]) \cap MergedRange(xlsx_buffer.doc[j]) = {}
       /\ IsBand(xlsx_buffer.doc[1])
       /\ \A i \in 1..Len(xlsx_buffer.doc) :
             ~IsBand(xlsx_buffer.doc[i]) =>
                xlsx_buffer.doc[SectionBand(xlsx_buffer.doc, i)].row < xlsx_buffer.doc[i].row

\* a sheet with two modules' test rows, and with narrative lines below the
\* bands of the narrative sections
C24_Witness ==
    /\ XlsxOk
    /\ Len(module_data_list) = 2
    /\ \A k \in 1..2 : ~empty(module_data_list[k].df)
    /\ \E i \in 2..Len(xlsx_buffer.doc) :
          /\ xlsx_buffer.doc[i].kind = "merged"
          /\ xlsx_buffer.doc[i - 1].kind = "band"

\* the order of the calls in the try block
GenerationOrder ==
    <<"generate_docx", "generate_html_report", "generate_xlsx_single_sheet">>

Shown(kind) == \E i \in 1..Len(screen) : screen[i][1] = kind

\* C25: the generators are called in the order DOCX, HTML, XLSX; when the
\* k-th raises, no generator is called after it, no download button and no
\* success message is shown, and once the handler has run the error
\* message is on the screen
C25_AllOrNothing ==
    pc \notin {"direct", "escape_html"} =>
       /\ Len(calls) <= 3
       /\ calls = SubSeq(GenerationOrder, 1, Len(calls))
       /\ \A k \in 1..3 :
             FirstOutput(GenerationOrder[k]).status = "raised" =>
                /\ Len(calls) = k
                /\ \A j \in (k + 1)..3 : FirstOutput(GenerationOrder[j]) = Unset
                /\ Buttons = {}
                /\ ~Shown("success")
                /\ pc \in {"except", "failed"}
                /\ pc = "failed" => Shown("error")
       /\ pc = "failed" =>
             \E k \in 1..3 : FirstOutput(GenerationOrder[k]).status = "raised"

\* generate_docx returned a document, generate_html_report raised, and the
\* run ended with the error message
C25_Witness ==
    /\ pc = "failed"
    /\ DocxOk
    /\ html_buffer.status = "raised"
    /\ xlsx_buffer = Unset
    /\ Shown("error")

\* the positions that bound the lines of a text: before its first
\* character, every line break, after its last character
LineCuts(text) ==
    {0, Len(text) + 1} \cup {i \in 1..Len(text) : text[i] = "\n"}

\* the cut that ends the line starting after the cut a
NextCut(text, a) ==
    CHOOSE b \in LineCuts(text) :
       b > a /\ \A c \in LineCuts(text) : c > a => b <= c

\* the positions of the line after the cut a that hold no whitespace
Ink(text, a) ==
    {i \in (a + 1)..(NextCut(text, a) - 1) : text[i] \notin Whitespace}

\* the cuts that start a line which is not blank
InkedCuts(text) ==
    {a \in LineCuts(text) \ {Len(text) + 1} : Ink(text, a) # {}}

\* the lines of text that are not blank, in the order of the text, each from
\* its first to its last character that is not whitespace
TrimmedLines(text) ==
    [k \in 1..Cardinality(InkedCuts(text)) |->
       LET a == CHOOSE x \in InkedCuts(text) :
                   Cardinality({y \in InkedCuts(text) : y < x}) = k - 1
           first == CHOOSE i \in Ink(text, a) : \A j \in Ink(text, a) : i <= j
           last == CHOOSE i \in Ink(text, a) : \A j \in Ink(text, a) : i >= j
       IN  SubSeq(text, first, last)]

\* the texts of paragraphs, each without the marker the generator put
ItemTexts(paragraphs) ==
    [k \in 1..Len(paragraphs) |-> SubSeq(paragraphs[k].text, 3, Len(paragraphs[k].text))]

\* the merged rows of the sheet under the band with the given title, up to
\* the next band, each without the marker the generator put
XlsxItemsUnder(title) ==
    LET rows == xlsx_buffer.doc
        band == CHOOSE i \in 1..Len(rows) :
                   IsBand(rows[i]) /\ rows[i].cells[1].value = <<title>>
        next == CHOOSE i \in (band + 1)..Len(rows) :
                   IsBand(rows[i]) /\ \A j \in (band + 1)..(i - 1) : ~IsBand(rows[j])
    IN  [k \in 1..(next - band - 1) |->
           SubSeq(rows[band + k].cells[1].value, 3, Len(rows[band + k].cells[1].value))]

\* C26: each narrative list (limitations and detailed recommendations in
\* DOCX and HTML; limitations, conclusion and recommendations in XLSX) has
\* one item per input line that is not blank, in input order, the item
\* being the trimmed line; a blank line gives no item
C26_OneItemPerNonBlankLine ==
    /\ DocxOk =>
          /\ \A k \in 1..Len(DocxLimitations) :
                SubSeq(DocxLimitations[k].text, 1, 2) = <<BULLET, " ">>
          /\ ItemTexts(DocxLimitations) = TrimmedLines(data.limitations)
          /\ ItemTexts(DocxRecommendations) = TrimmedLines(data.recommendations_detailed)
    /\ HtmlOk =>
          /\ Len(HtmlLists) = 2
          /\ HtmlLists[1].items =
                [k \in 1..Len(TrimmedLines(data.limitations)) |->
                   escape_html(TrimmedLines(data.limitations)[k])]
          /\ HtmlLists[2].items =
                [k \in 1..Len(TrimmedLines(data.recommendations_detailed)) |->
                   escape_html(TrimmedLines(data.recommendations_detailed)[k])]
    /\ XlsxOk =>
          /\ XlsxItemsUnder("TESTING LIMITATIONS") = TrimmedLines(data.limitations)
          /\ XlsxItemsUnder("CONCLUSION") = TrimmedLines(data.conclusion)
          /\ XlsxItemsUnder("RECOMMENDATIONS") =
                TrimmedLines(data.recommendations_detailed)

\* the limitations hold a blank line between two lines, one of them with
\* spaces around it, and the three documents list the two lines
C26_Witness ==
    /\ DocxOk /\ HtmlOk /\ XlsxOk
    /\ data.limitations = <<"a", "\n", " ", "\n", " ", "b", " ">>
    /\ ItemTexts(DocxLimitations) = << <<"a">>, <<"b">> >>
    /\ HtmlLists[1].items = << <<"a">>, <<"b">> >>
    /\ XlsxItemsUnder("TESTING LIMITATIONS") = << <<"a">>, <<"b">> >>

\* a character as it must stand in HTML text
CharEntity(c) ==
    CASE c = "&" -> <<"&", "a", "m", "p", ";">>
      [] c = "<" -> <<"&", "l", "t", ";">>
      [] c = ">" -> <<"&", "g", "t", ";">>
      [] c = "\"" -> <<"&", "q", "u", "o", "t", ";">>
      [] c = "'" -> <<"&", "#", "3", "9", ";">>
      [] OTHER -> <<c>>

RECURSIVE EscapedOnce(_)
\* a user's value escaped once, character by character (a missing cell is
\* shown by its name)
EscapedOnce(value) ==
    IF value = None THEN str(None)
    ELSE IF value = <<>> THEN <<>>
    ELSE CharEntity(Head(value)) \o EscapedOnce(Tail(value))

\* the texts of the second cells of the rows of a two-column table
Values(table) == [k \in 1..Len(table.rows) |-> table.rows[k][2].text]

\* the texts of the cells of the rows of a table
CellTexts(table) ==
    [r \in 1..Len(table.rows) |->
       [c \in 1..Len(table.rows[r]) |-> table.rows[r][c].text]]

\* the cells of a table of the model, each escaped once
EscapedCells(df) ==
    [r \in 1..Len(df.rows) |->
       [c \in 1..Len(df.rows[r]) |-> EscapedOnce(df.rows[r][c])]]

\* the index of the last element of the module results in the HTML page
HtmlModulesEnd == 10 + 2 * Len(module_data_list)

\* every text of the HTML page that a user's value went into
HtmlUserTexts ==
    LET doc == html_buffer.doc
        n == HtmlModulesEnd
    IN  <<doc[1].text, doc[2].text>> \o Values(doc[3])
        \o <<Values(doc[5])[1], Values(doc[5])[7], Values(doc[5])[8]>>
        \o Values(doc[9])
        \o [k \in 1..Len(module_data_list) |-> doc[9 + 2 * k].text]
        \o <<doc[n + 3].text, doc[n + 7].text>>
        \o doc[n + 5].items \o doc[n + 9].items
        \o Values(doc[n + 11])

RECURSIVE WithoutBr(_)
\* a text without the line-break elements the generator put into it
WithoutBr(text) ==
    IF text = <<>> THEN <<>>
    ELSE IF Head(text) = "<br>" THEN WithoutBr(Tail(text))
         ELSE <<Head(text)>> \o WithoutBr(Tail(text))

\* C27: every text value of the model stands in the HTML page escaped
\* exactly once (header, summary, context, narrative and signature strings,
\* module titles, every cell of the module tables and of the defect table);
\* the counts and percentages stand as numbers; no text of the page holds a
\* raw <, >, " or ', nor an & that does not start an entity
C27_UserTextEscapedOnce ==
    HtmlOk =>
       LET doc == html_buffer.doc
           n == HtmlModulesEnd
       IN  /\ doc[1].text = EscapedOnce(data.report_title)
           /\ doc[2].text = EscapedOnce(data.report_title)
           /\ Values(doc[3]) =
                 <<EscapedOnce(data.project), EscapedOnce(data.app_type),
                   EscapedOnce(data.version), EscapedOnce(data.test_period),
                   EscapedOnce(data.report_date), EscapedOnce(data.engineer)>>
           /\ Values(doc[5]) =
                 <<EscapedOnce(data.release_status), str_int(data.s1), str_int(data.s2),
                   str_int(data.total_tc), CountPct(data.pass, pass_pct(data)),
                   CountPct(data.fail, fail_pct(data)), EscapedOnce(data.risk),
                   EscapedOnce(data.recommendation)>>
           /\ Values(doc[9]) =
                 <<EscapedOnce(data.device_browser), EscapedOnce(data.os_platform),
                   EscapedOnce(data.build),
                   <<"Test environment (address: ">> \o EscapedOnce(data.env_url)
                      \o <<")">>,
                   EscapedOnce(data.tools), EscapedOnce(data.methodology)>>
           /\ \A k \in 1..Len(module_data_list) :
                 /\ doc[9 + 2 * k].text =
                       <<"3", ".">> \o str_int(k) \o <<".", " ">>
                          \o EscapedOnce(module_data_list[k].title)
                 /\ ~empty(module_data_list[k].df) =>
                       CellTexts(doc[10 + 2 * k]) = EscapedCells(module_data_list[k].df)
           /\ ~empty(defects) => CellTexts(doc[n + 2]) = EscapedCells(defects)
           /\ WithoutBr(doc[n + 3].text) =
                 EscapedOnce(SelectSeq(data.consequences, LAMBDA c : c # "\n"))
           /\ doc[n + 5].items =
                 [k \in 1..Len(TrimmedLines(data.limitations)) |->
                    EscapedOnce(TrimmedLines(data.limitations)[k])]
           /\ doc[n + 7].text = EscapedOnce(data.conclusion)
           /\ doc[n + 9].items =
                 [k \in 1..Len(TrimmedLines(data.recommendations_detailed)) |->
                    EscapedOnce(TrimmedLines(data.recommendations_detailed)[k])]
           /\ Values(doc[n + 11]) =
                 <<EscapedOnce(data.role), EscapedOnce(data.fullname),
                   EscapedOnce(data.signature_date)>>
           /\ \A k \in 1..Len(HtmlUserTexts) :
                 /\ NoRawSpecial(HtmlUserTexts[k])
                 /\ EveryAmpStartsEntity(HtmlUserTexts[k])

\* the page of the model whose every text holds markup: the project, a list
\* item and a table cell stand escaped once
C27_Witness ==
    /\ HtmlOk
    /\ data.project = Markup
    /\ Values(html_buffer.doc[3])[1] =
          <<"&", "l", "t", ";", "b", "&", "g", "t", ";", "&", "a", "m", "p", ";",
            "a", "m", "p", ";", "&", "q", "u", "o", "t", ";", "&", "#", "3", "9", ";">>
    /\ html_buffer.doc[HtmlModulesEnd + 9].items = <<Values(html_buffer.doc[3])[1]>>
    /\ CellTexts(html_buffer.doc[12])[1][4] = Values(html_buffer.doc[3])[1]

\* the rows of the key metrics block of the sheet
XlsxMetricsRows ==
    SelectSeq(xlsx_buffer.doc,
              LAMBDA r : /\ r.kind = "fact"
                         /\ r.row > BandRow("summary")
                         /\ r.row < BandRow("context"))

\* C28: in the key metrics block of the sheet the release status row is
\* filled red when the status is "NOT RECOMMENDED FOR RELEASE" and green
\* when it is "RECOMMENDED FOR RELEASE", and the value cell of no other
\* row (project, version, period, counts, recommendation) is filled
C28_OnlyReleaseRowFilled ==
    XlsxOk =>
       \A k \in 1..Len(XlsxMetricsRows) :
          IF XlsxMetricsRows[k].cells[1].value = <<"Release status">>
          THEN /\ data.release_status = NOT_RECOMMENDED \o <<" FOR RELEASE">> =>
                     XlsxMetricsRows[k].cells[2].fill = critical_fill
               /\ data.release_status = RECOMMENDED \o <<" FOR RELEASE">> =>
                     XlsxMetricsRows[k].cells[2].fill = green_fill
          ELSE XlsxMetricsRows[k].cells[2].fill = ""

\* C29: with the counts the form allows (pass >= 0, fail >= 0), a
\* submission that reports "count exceeds total" also reports "sum
\* mismatch"; and whenever a generator is about to be called or has been
\* called, 0 <= pass <= total, 0 <= fail <= total and total > 0
C29_CountsWithinTotal ==
    /\ pc # "form" =>
          ("exceeds_total" \in Reported => "sum_mismatch" \in Reported)
    /\ (pc \in {"generate_docx", "generate_html_report", "generate_xlsx_single_sheet"}
           \/ calls # <<>>) =>
          /\ validation_errors = <<>>
          /\ 0 <= data.pass /\ data.pass <= data.total_tc
          /\ 0 <= data.fail /\ data.fail <= data.total_tc
          /\ data.total_tc > 0

\* pass=69, fail=3, total=14 was submitted: both errors are shown
C29_Witness ==
    /\ pc = "stopped"
    /\ form.pass_tc = 69 /\ form.fail_tc = 3 /\ form.total_tc = 14
    /\ Reported = {"sum_mismatch", "exceeds_total"}

====
